---- MODULE Spec2Model ----
(***************************************************************************)
(* Session coordination layer of the multiplayer server:                   *)
(*   packages/ai-server/room-manager.js      (Room, RoomManager)           *)
(*   packages/ai-server/websocket-manager.js (WebSocketManager)            *)
(* One action per event handler of the single-threaded event loop.  Every  *)
(* handler runs to completion, so an action is the whole handler.          *)
(***************************************************************************)
EXTENDS Integers, Sequences, FiniteSets, TLC

(* ---------------- bounds of the model ---------------- *)
NumConns == 2
NumPlayers == 3
NumRooms == 2
MaxTicks == 1
MaxSamples == 1
MaxRecorded == 6
MaxPending == 1
NumAggressive == 1
MaxHistory == 52
NumLanes == 3
MaxReports == 3
MaxLong == 5
MaxIntervals == 4

(* ---------------- program constants ---------------- *)
maxPlayers == 2
HealthTimeout == 60000
HealthInterval == 30000
MaxIdleTime == 60 * 60 * 1000
InitLane == 2
MaxRecent == 10
MaxDecisions == 50
MaxDebates == 30
RecentDecisions == 5
RecentDebates == 3

Conns == 1 .. NumConns
PlayerIds == 1 .. NumPlayers
RoomIds == 1 .. NumRooms
\* a field that is null, undefined or missing in a payload
None == 0
\* a clock step passes both the connection timeout and the idle threshold
TickSteps == {MaxIdleTime + 1}

VARIABLES
    now,          \* Date.now()
    ws,           \* transport state of each socket (readyState 1 is "open")
    connections,  \* WebSocketManager.connections : ws -> connection record
    rooms,        \* RoomManager.rooms, a Map in insertion order
    playerRooms,  \* RoomManager.playerRooms : playerId -> roomId
    spectators,   \* RoomManager.spectators : ws -> roomId
    pending       \* /decide-multiplayer requests awaiting the upstream answer

vars == <<now, ws, connections, rooms, playerRooms, spectators, pending>>

(* ---------------- Map helpers ---------------- *)
EmptyMap == [k \in {} |-> None]
MapSet(f, k, v) == [x \in DOMAIN f \cup {k} |-> IF x = k THEN v ELSE f[x]]
MapDel(f, k) == [x \in DOMAIN f \ {k} |-> f[x]]
MapGet(f, k) == IF k \in DOMAIN f THEN f[k] ELSE None
\* { ...a, ...b }
Spread(a, b) == [k \in DOMAIN a \cup DOMAIN b |-> IF k \in DOMAIN b THEN b[k] ELSE a[k]]
Min(a, b) == IF a < b THEN a ELSE b
Max(a, b) == IF a > b THEN a ELSE b
\* Array.prototype.slice(-n)
LastN(s, n) == SubSeq(s, Max(1, Len(s) - n + 1), Len(s))
\* push followed by shift when the length exceeds the limit
\* push without the shift
PushUnbounded(s, x, limit) == Append(s, x)
PushBounded(s, x, limit) == IF Len(s) + 1 > limit THEN Tail(Append(s, x)) ELSE Append(s, x)
NoSent == [c \in Conns |-> <<>>]

(* ---------------- Room ---------------- *)
EmptyPatterns == EmptyMap

NewRoom(id) ==
    [id |-> id, players |-> <<>>, status |-> "waiting", started |-> FALSE,
     tick |-> 0, aiDecisions |-> <<>>, agentDebates |-> <<>>,
     createdAt |-> now, lastActivity |-> now, patterns |-> EmptyPatterns]

InitStats ==
    [currentTime |-> 0, bestTime |-> 0, lane |-> InitLane,
     recentMoves |-> <<>>, recentLanes |-> <<InitLane>>]

NewPlayer(playerId, c) ==
    [id |-> playerId, websocket |-> c, joinedAt |-> now, connected |-> TRUE,
     stats |-> InitStats]

HasRoom(rs, id) == \E i \in 1 .. Len(rs) : rs[i].id = id
RoomIdx(rs, id) == CHOOSE i \in 1 .. Len(rs) : rs[i].id = id
getRoom(rs, id) == rs[RoomIdx(rs, id)]
RoomIdSet(rs) == {rs[i].id : i \in 1 .. Len(rs)}

PlayerKeys(r) == [i \in 1 .. Len(r.players) |-> r.players[i].id]
HasPlayer(r, playerId) == \E i \in 1 .. Len(r.players) : r.players[i].id = playerId
PlayerIdx(r, playerId) == CHOOSE i \in 1 .. Len(r.players) : r.players[i].id = playerId
Size(r) == Len(r.players)

(* ---------------- sending ---------------- *)
\* an envelope reaches a socket only while its readyState is 1 and its send does
\* not throw ("broken": readyState 1, send throws); every caller but addSpectator
\* tests the readyState and catches
SendTo(snt, c, m) == IF ws[c] = "open" THEN [snt EXCEPT ![c] = Append(@, m)] ELSE snt

\* a loop over the targets that the first throwing send ends
SendEachAborting(snt, targets, m) ==
    LET thrown == {k \in 1 .. Len(targets) : ws[targets[k]] = "broken"}
        done == {k \in 1 .. Len(targets) : \A t \in thrown : k < t}
        times(c) == Cardinality({k \in done : targets[k] = c /\ ws[c] = "open"})
    IN  [c \in DOMAIN snt |-> snt[c] \o [j \in 1 .. times(c) |-> m]]

RECURSIVE SendEach(_, _, _)
SendEach(snt, targets, m) ==
    IF targets = <<>> THEN snt
    ELSE SendEach(SendTo(snt, Head(targets), m), Tail(targets), m)

PlayerEnvelope(type, data) == [type |-> type, data |-> data]
SpectatorEnvelope(type, data, roomId) == [type |-> type, data |-> data, roomId |-> roomId]
Envelope(type, data) == [type |-> type, data |-> data, timestamp |-> now]

broadcastToPlayers(snt, r, type, data, excludePlayerId) ==
    LET kept == SelectSeq(r.players, LAMBDA p : p.id # excludePlayerId)
        targets == [i \in 1 .. Len(kept) |-> kept[i].websocket]
    IN  SendEach(snt, targets, PlayerEnvelope(type, data))

\* the 'broadcast' listener RoomManager.createRoom installs on the room
RECURSIVE SendSpectators(_, _, _, _)
SendSpectators(snt, todo, specs, m) ==
    IF todo = {} THEN snt
    ELSE LET c == CHOOSE x \in todo : TRUE
         IN  SendSpectators(IF specs[c] = m.roomId THEN SendTo(snt, c, m) ELSE snt,
                            todo \ {c}, specs, m)

\* broadcastToAll as it would be without the 'broadcast' event
broadcastToAllPlayersOnly(snt, specs, r, type, data) ==
    broadcastToPlayers(snt, r, type, data, None)

broadcastToAll(snt, specs, r, type, data) ==
    SendSpectators(broadcastToPlayers(snt, r, type, data, None),
                   DOMAIN specs, specs, SpectatorEnvelope(type, data, r.id))

\* the catch of broadcastToPlayers: the slot whose send threw is flagged
MarkFailed(r, excludePlayerId) ==
    [r EXCEPT !.players =
       [j \in 1 .. Len(@) |->
          IF ws[@[j].websocket] = "broken" /\ @[j].id # excludePlayerId
            THEN [@[j] EXCEPT !.connected = FALSE] ELSE @[j]]]

\* the catch of the 'broadcast' listener: the subscription whose send threw goes
DropFailed(specs, roomId) ==
    LET kept == {c \in DOMAIN specs : ~(specs[c] = roomId /\ ws[c] = "broken")}
    IN  [c \in kept |-> specs[c]]

sendMessage(snt, c, type, data) == SendTo(snt, c, Envelope(type, data))
sendError(snt, c, errorType, message) ==
    sendMessage(snt, c, "error", [errorType |-> errorType, message |-> message])

(* ---------------- the mutable world a handler works on ---------------- *)
\* sent: the envelopes the handler wrote to each socket, in order; events: what it
\* emitted on the Room and RoomManager emitters; err: the message of the Error
\* thrown so far ("" while none was thrown)
World ==
    [rooms |-> rooms, playerRooms |-> playerRooms, spectators |-> spectators,
     sent |-> NoSent, events |-> <<>>, err |-> ""]

\* the messages are kept without the room id the code interpolates into them
Throw(w, message) == [w EXCEPT !.err = message]
\* what the catch blocks of a broadcast of the room leave behind
Caught(w, roomId, excludePlayerId, toAll) ==
    [w EXCEPT !.rooms = [i \in 1 .. Len(@) |->
                           IF @[i].id = roomId THEN MarkFailed(@[i], excludePlayerId)
                           ELSE @[i]],
              !.spectators = IF toAll THEN DropFailed(@, roomId) ELSE @]
Emit(w, name, roomId, playerId) ==
    [w EXCEPT !.events = Append(@, [name |-> name, roomId |-> roomId, playerId |-> playerId])]
SetRoom(w, r) == [w EXCEPT !.rooms[RoomIdx(w.rooms, r.id)] = r]

getInfo(r) ==
    [id |-> r.id, status |-> r.status, playerCount |-> Size(r), maxPlayers |-> maxPlayers,
     players |-> PlayerKeys(r), gameStarted |-> r.started,
     createdAt |-> r.createdAt, lastActivity |-> r.lastActivity]

NullPayload == [null |-> TRUE]
getDualPlayerPayload(r) ==
    IF Size(r) < 2 THEN NullPayload
    ELSE [room_id |-> r.id,
          player1 |-> [id |-> r.players[1].id, stats |-> r.players[1].stats],
          player2 |-> [id |-> r.players[2].id, stats |-> r.players[2].stats],
          cross_patterns |-> r.patterns,
          game_state |-> [tick |-> r.tick, started |-> r.started,
                          duration |-> IF r.started THEN now - r.createdAt ELSE 0]]

startGame(w, roomId) ==
    LET r == getRoom(w.rooms, roomId)
    IN  IF r.started THEN w
        ELSE LET r1 == [r EXCEPT !.started = TRUE, !.status = "active", !.lastActivity = now]
                 data == [roomId |-> r1.id, players |-> PlayerKeys(r1), timestamp |-> now]
                 w1 == Caught([SetRoom(w, r1) EXCEPT
                          !.sent = broadcastToPlayers(w.sent, r1, "game_started", data, None)],
                          roomId, None, FALSE)
             IN  Emit(w1, "gameStarted", roomId, None)

\* addPlayer as it would be without the capacity guard
addPlayerUnguarded(w, roomId, playerId, c) ==
    LET r == getRoom(w.rooms, roomId)
        notify(w1) ==
          LET r2 == getRoom(w1.rooms, roomId)
              data == [playerId |-> playerId, playerCount |-> Size(r2),
                       roomStatus |-> r2.status]
              w2 == Caught([w1 EXCEPT
                       !.sent = broadcastToAll(@, w1.spectators, r2, "player_joined", data)],
                       roomId, None, TRUE)
              w3 == [w2 EXCEPT !.playerRooms = MapSet(@, playerId, roomId)]
          IN  Emit(w3, "playerJoined", roomId, playerId)
    IN  IF HasPlayer(r, playerId) THEN Throw(w, "Player already in room")
        ELSE
          LET r1 == [r EXCEPT !.players = Append(@, NewPlayer(playerId, c)),
                              !.lastActivity = now]
          IN  notify(IF Size(r1) = maxPlayers
                       THEN startGame(SetRoom(w, [r1 EXCEPT !.status = "full"]), roomId)
                     ELSE IF Size(r1) = 1
                       THEN SetRoom(w, [r1 EXCEPT !.status = "waiting"])
                     ELSE SetRoom(w, r1))

addPlayer(w, roomId, playerId, c) ==
    LET r == getRoom(w.rooms, roomId)
        \* the notifications, sent from the world w1 the status update has left
        notify(w1) ==
          LET r2 == getRoom(w1.rooms, roomId)
              data == [playerId |-> playerId, playerCount |-> Size(r2),
                       roomStatus |-> r2.status]
              w2 == Caught([w1 EXCEPT
                       !.sent = broadcastToAll(@, w1.spectators, r2, "player_joined", data)],
                       roomId, None, TRUE)
              \* 'playerJoined' listener of RoomManager.createRoom
              w3 == [w2 EXCEPT !.playerRooms = MapSet(@, playerId, roomId)]
          IN  Emit(w3, "playerJoined", roomId, playerId)
    IN  IF Size(r) >= maxPlayers THEN Throw(w, "Room is full")
        ELSE IF HasPlayer(r, playerId) THEN Throw(w, "Player already in room")
        ELSE
          LET r1 == [r EXCEPT !.players = Append(@, NewPlayer(playerId, c)),
                              !.lastActivity = now]
          IN  notify(IF Size(r1) = maxPlayers
                       THEN startGame(SetRoom(w, [r1 EXCEPT !.status = "full"]), roomId)
                     ELSE IF Size(r1) = 1
                       THEN SetRoom(w, [r1 EXCEPT !.status = "waiting"])
                     ELSE SetRoom(w, r1))

\* removePlayer as it would be if the room went with its last slot
removePlayerDeleting(w, roomId, playerId) ==
    LET r == getRoom(w.rooms, roomId)
    IN  IF ~HasPlayer(r, playerId) THEN w
        ELSE
          LET ps == SelectSeq(r.players, LAMBDA p : p.id # playerId)
              r1 == [r EXCEPT !.players = ps, !.lastActivity = now,
                              !.status = IF Len(ps) = 0 THEN "empty" ELSE "waiting",
                              !.started = IF Len(ps) = 0 THEN @ ELSE FALSE]
              data == [playerId |-> playerId, playerCount |-> Size(r1), roomStatus |-> r1.status]
              w1 == Caught([SetRoom(w, r1) EXCEPT
                       !.sent = broadcastToAll(w.sent, w.spectators, r1, "player_left", data)],
                       roomId, None, TRUE)
              w2 == [w1 EXCEPT !.playerRooms = MapDel(@, playerId),
                               !.rooms = IF Len(ps) = 0
                                           THEN SelectSeq(@, LAMBDA x : x.id # roomId)
                                           ELSE @]
          IN  Emit(w2, "playerLeft", roomId, playerId)

\* removePlayer as it would be if it left the game running
removePlayerKeepingStarted(w, roomId, playerId) ==
    LET r == getRoom(w.rooms, roomId)
    IN  IF ~HasPlayer(r, playerId) THEN w
        ELSE
          LET ps == SelectSeq(r.players, LAMBDA p : p.id # playerId)
              r1 == [r EXCEPT !.players = ps, !.lastActivity = now,
                              !.status = IF Len(ps) = 0 THEN "empty" ELSE "waiting"]
              data == [playerId |-> playerId, playerCount |-> Size(r1), roomStatus |-> r1.status]
              w1 == Caught([SetRoom(w, r1) EXCEPT
                       !.sent = broadcastToAll(w.sent, w.spectators, r1, "player_left", data)],
                       roomId, None, TRUE)
              \* 'playerLeft' listener of RoomManager.createRoom
              w2 == [w1 EXCEPT !.playerRooms = MapDel(@, playerId)]
          IN  Emit(w2, "playerLeft", roomId, playerId)

removePlayer(w, roomId, playerId) ==
    LET r == getRoom(w.rooms, roomId)
    IN  IF ~HasPlayer(r, playerId) THEN w
        ELSE
          LET ps == SelectSeq(r.players, LAMBDA p : p.id # playerId)
              r1 == [r EXCEPT !.players = ps, !.lastActivity = now,
                              !.status = IF Len(ps) = 0 THEN "empty" ELSE "waiting",
                              !.started = IF Len(ps) = 0 THEN @ ELSE FALSE]
              data == [playerId |-> playerId, playerCount |-> Size(r1), roomStatus |-> r1.status]
              w1 == Caught([SetRoom(w, r1) EXCEPT
                       !.sent = broadcastToAll(w.sent, w.spectators, r1, "player_left", data)],
                       roomId, None, TRUE)
              \* 'playerLeft' listener of RoomManager.createRoom
              w2 == [w1 EXCEPT !.playerRooms = MapDel(@, playerId)]
          IN  Emit(w2, "playerLeft", roomId, playerId)

\* addAIDecision as it would be if it read the tick without advancing it
addAIDecisionStaleTick(w, roomId, decision) ==
    LET r == getRoom(w.rooms, roomId)
        decisionWithMeta ==
          Spread(decision, [playerId |-> None, timestamp |-> now, tick |-> r.tick])
        r1 == [r EXCEPT !.aiDecisions = PushBounded(@, decisionWithMeta, MaxDecisions)]
    IN  Emit(Caught([SetRoom(w, r1) EXCEPT
                !.sent = broadcastToAll(@, w.spectators, r1, "ai_decision", decisionWithMeta)],
                roomId, None, TRUE),
             "aiDecision", roomId, None)

addAIDecision(w, roomId, decision) ==
    LET r == getRoom(w.rooms, roomId)
        decisionWithMeta ==
          Spread(decision, [playerId |-> None, timestamp |-> now, tick |-> r.tick])
        r1 == [r EXCEPT !.tick = @ + 1,
                        !.aiDecisions = PushBounded(@, decisionWithMeta, MaxDecisions)]
    IN  Emit(Caught([SetRoom(w, r1) EXCEPT
                !.sent = broadcastToAll(@, w.spectators, r1, "ai_decision", decisionWithMeta)],
                roomId, None, TRUE),
             "aiDecision", roomId, None)

addAgentDebate(w, roomId, strategistMessage, aggressiveMessage) ==
    LET r == getRoom(w.rooms, roomId)
        debate == [strategist |-> strategistMessage, aggressive |-> aggressiveMessage,
                   timestamp |-> now, players |-> PlayerKeys(r)]
        r1 == [r EXCEPT !.agentDebates = PushBounded(@, debate, MaxDebates)]
    IN  Emit(Caught([SetRoom(w, r1) EXCEPT
                !.sent = broadcastToAll(@, w.spectators, r1, "agent_debate", debate)],
                roomId, None, TRUE),
             "agentDebate", roomId, None)

(* ---------------- RoomManager ---------------- *)
\* createRoom as it would be without the test for a room of that id
createRoomOverwriting(w, roomId) ==
    Emit([w EXCEPT !.rooms = Append(SelectSeq(@, LAMBDA x : x.id # roomId), NewRoom(roomId))],
         "roomCreated", roomId, None)

createRoom(w, roomId) ==
    IF HasRoom(w.rooms, roomId) THEN Throw(w, "Room already exists")
    ELSE Emit([w EXCEPT !.rooms = Append(@, NewRoom(roomId))], "roomCreated", roomId, None)

\* deleteRoom as it would be without the removal of the spectators
deleteRoomKeepingSpectators(w, roomId) ==
    IF ~HasRoom(w.rooms, roomId) THEN w
    ELSE LET r == getRoom(w.rooms, roomId)
             gone == {r.players[i].id : i \in 1 .. Len(r.players)}
             w1 == [w EXCEPT
                      !.playerRooms = [p \in DOMAIN @ \ gone |-> @[p]],
                      !.rooms = SelectSeq(@, LAMBDA x : x.id # roomId)]
         IN  Emit(w1, "roomDeleted", roomId, None)

\* deleteRoom as it would be without the removal of the participant mappings
deleteRoomKeepingMappings(w, roomId) ==
    IF ~HasRoom(w.rooms, roomId) THEN w
    ELSE LET w1 == [w EXCEPT
                      !.spectators = [c \in {x \in DOMAIN @ : @[x] # roomId} |-> @[c]],
                      !.rooms = SelectSeq(@, LAMBDA x : x.id # roomId)]
         IN  Emit(w1, "roomDeleted", roomId, None)

deleteRoom(w, roomId) ==
    IF ~HasRoom(w.rooms, roomId) THEN w
    ELSE LET r == getRoom(w.rooms, roomId)
             gone == {r.players[i].id : i \in 1 .. Len(r.players)}
             w1 == [w EXCEPT
                      !.playerRooms = [p \in DOMAIN @ \ gone |-> @[p]],
                      !.spectators = [c \in {x \in DOMAIN @ : @[x] # roomId} |-> @[c]],
                      !.rooms = SelectSeq(@, LAMBDA x : x.id # roomId)]
         IN  Emit(w1, "roomDeleted", roomId, None)

getRoomByPlayer(w, playerId) ==
    LET roomId == MapGet(w.playerRooms, playerId)
    IN  IF roomId # None /\ HasRoom(w.rooms, roomId) THEN roomId ELSE None

findAvailableRoom(rs) ==
    LET ok == {i \in 1 .. Len(rs) : rs[i].status = "waiting" /\ Size(rs[i]) < maxPlayers}
    IN  IF ok = {} THEN None
        ELSE rs[CHOOSE i \in ok : \A j \in ok : i <= j].id

\* addPlayerToRoom as it would be without the removal from the room the player is in
addPlayerToRoomKeepingSlot(w, playerId, c, roomId, freshId) ==
    IF roomId # None
      THEN IF ~HasRoom(w.rooms, roomId) THEN Throw(w, "Room not found")
           ELSE addPlayer(w, roomId, playerId, c)
      ELSE LET room == findAvailableRoom(w.rooms)
           IN  IF room # None THEN addPlayer(w, room, playerId, c)
               ELSE addPlayer(createRoom(w, freshId), freshId, playerId, c)

addPlayerToRoom(w, playerId, c, roomId, freshId) ==
    LET existingRoomId == MapGet(w.playerRooms, playerId)
        \* the rest of the method, run on the world w1 the removal has left
        join(w1) ==
            IF roomId # None
              THEN IF ~HasRoom(w1.rooms, roomId) THEN Throw(w1, "Room not found")
                   ELSE addPlayer(w1, roomId, playerId, c)
              ELSE LET room == findAvailableRoom(w1.rooms)
                   IN  IF room # None THEN addPlayer(w1, room, playerId, c)
                       ELSE addPlayer(createRoom(w1, freshId), freshId, playerId, c)
    IN  join(IF playerId \in DOMAIN w.playerRooms /\ HasRoom(w.rooms, existingRoomId)
               THEN removePlayer(w, existingRoomId, playerId)
               ELSE w)

\* addSpectator as it would be if it registered the socket before it looked the room up
addSpectatorUnchecked(w, c, roomId) ==
    IF ~HasRoom(w.rooms, roomId)
      THEN Throw([w EXCEPT !.spectators = MapSet(@, c, roomId)], "Room not found")
    ELSE LET r == getRoom(w.rooms, roomId)
             data == [roomInfo |-> getInfo(r), gameState |-> getDualPlayerPayload(r)]
         IN  [w EXCEPT !.spectators = MapSet(@, c, roomId),
                       !.sent[c] = Append(@, PlayerEnvelope("room_state", data))]

\* addSpectator as it would be if a socket kept the subscription it has
addSpectatorKeepingFirst(w, c, roomId) ==
    IF ~HasRoom(w.rooms, roomId) THEN Throw(w, "Room not found")
    ELSE LET r == getRoom(w.rooms, roomId)
             data == [roomInfo |-> getInfo(r), gameState |-> getDualPlayerPayload(r)]
         IN  [w EXCEPT !.spectators = IF c \in DOMAIN @ THEN @ ELSE MapSet(@, c, roomId),
                       !.sent[c] = Append(@, PlayerEnvelope("room_state", data))]

addSpectator(w, c, roomId) ==
    IF ~HasRoom(w.rooms, roomId) THEN Throw(w, "Room not found")
    ELSE LET r == getRoom(w.rooms, roomId)
             data == [roomInfo |-> getInfo(r), gameState |-> getDualPlayerPayload(r)]
         IN  [w EXCEPT !.spectators = MapSet(@, c, roomId),
                       !.sent[c] = Append(@, PlayerEnvelope("room_state", data))]

removeSpectator(w, c) == [w EXCEPT !.spectators = MapDel(@, c)]

(* ---------------- WebSocketManager handlers ---------------- *)
\* a handler yields the world it leaves and the connection record it leaves
Result(w, conn) == [w |-> w, conn |-> conn]
Reply(w, c, type, data) == [w EXCEPT !.sent = sendMessage(@, c, type, data)]
ReplyError(w, c, errorType, message) == [w EXCEPT !.sent = sendError(@, c, errorType, message)]

NewConnection ==
    [type |-> "unknown", playerId |-> None, roomId |-> None, lastActivity |-> now]

getRoomStats(rs, specs) ==
    [totalRooms |-> Len(rs),
     activeRooms |-> Cardinality({i \in 1 .. Len(rs) : rs[i].status = "active"}),
     waitingRooms |-> Cardinality({i \in 1 .. Len(rs) : rs[i].status = "waiting"}),
     totalSpectators |-> Cardinality(DOMAIN specs)]

PlayerPosition(r, playerId) == IF HasPlayer(r, playerId) THEN PlayerIdx(r, playerId) ELSE 0

handlePlayerJoin(c, conn, playerId, roomId, freshId) ==
    IF playerId = None
      THEN Result(ReplyError(World, c, "missing_player_id", "Player ID is required"), conn)
    ELSE
      LET w0 == IF ~HasRoom(rooms, roomId)
                  THEN createRoom(World, IF roomId = None THEN freshId ELSE roomId)
                  ELSE World
          \* what follows addPlayerToRoom, which has left the world w1
          after(w1) ==
            IF w1.err # ""
              THEN Result(ReplyError(w1, c, "join_failed", w1.err), conn)
            ELSE
              LET room == getRoom(w1.rooms, getRoomByPlayer(w1, playerId))
                  conn1 == [conn EXCEPT !.type = "player", !.playerId = playerId,
                                        !.roomId = room.id]
                  data == [playerId |-> playerId, roomId |-> room.id,
                           roomInfo |-> getInfo(room),
                           playerPosition |-> PlayerPosition(room, playerId)]
              IN  Result(Reply(w1, c, "joined_room", data), conn1)
      IN  after(addPlayerToRoom(w0, playerId, c, roomId, freshId))

RECURSIVE ReplayPlayers(_, _, _, _)
ReplayPlayers(snt, c, r, i) ==
    IF i > Size(r) THEN snt
    ELSE ReplayPlayers(
           sendMessage(snt, c, "player_joined",
                       [playerId |-> r.players[i].id, playerCount |-> Size(r),
                        roomStatus |-> r.status]),
           c, r, i + 1)

RECURSIVE ReplayEach(_, _, _, _)
\* forEach over a stored history, one envelope per entry
ReplayEach(snt, c, type, entries) ==
    IF entries = <<>> THEN snt
    ELSE ReplayEach(sendMessage(snt, c, type, Head(entries)), c, type, Tail(entries))

handleDashboardJoin(c, conn, roomId, freshId) ==
    LET created == roomId = None \/ ~HasRoom(rooms, roomId)
        id == IF roomId = None THEN freshId ELSE roomId
        w1 == IF created
                THEN [createRoom(World, id) EXCEPT !.spectators = MapSet(@, c, id)]
                ELSE addSpectator(World, c, id)
        conn1 == [conn EXCEPT !.type = IF created THEN "dashboard" ELSE "spectator",
                              !.roomId = id]
        room == getRoom(w1.rooms, id)
        ready == [roomId |-> id, roomInfo |-> getInfo(room),
                  gameState |-> getDualPlayerPayload(room)]
        w2 == Reply(w1, c, "dashboard_ready", ready)
        w3 == [w2 EXCEPT !.sent = ReplayPlayers(@, c, room, 1)]
        w4 == [w3 EXCEPT !.sent = ReplayEach(@, c, "ai_decision",
                                             LastN(room.aiDecisions, RecentDecisions))]
        w5 == [w4 EXCEPT !.sent = ReplayEach(@, c, "agent_debate",
                                             LastN(room.agentDebates, RecentDebates))]
    IN  Result(w5, conn1)

handleCreateRoom(c, conn, roomId, freshId) ==
    LET id == IF roomId = None THEN freshId ELSE roomId
        w1 == createRoom(World, id)
    IN  IF w1.err # ""
          THEN Result(ReplyError(w1, c, "create_room_failed", w1.err), conn)
        ELSE Result(Reply(w1, c, "room_created",
                          [roomId |-> id, roomInfo |-> getInfo(getRoom(w1.rooms, id))]), conn)

handleJoinRoom(c, conn, roomId, playerId, asSpectator, freshId) ==
    IF asSpectator
      THEN LET w1 == addSpectator(World, c, roomId)
           IN  IF w1.err # ""
                 THEN Result(ReplyError(w1, c, "join_room_failed", w1.err), conn)
               ELSE Result(Reply(w1, c, "joined_as_spectator",
                                 [roomId |-> roomId,
                                  roomInfo |-> getInfo(getRoom(w1.rooms, roomId))]),
                           [conn EXCEPT !.type = "spectator", !.roomId = roomId])
    ELSE IF playerId = None
      THEN Result(ReplyError(World, c, "missing_player_id",
                             "Player ID required to join as player"), conn)
    ELSE
      LET \* what follows addPlayerToRoom, which has left the world w1
          after(w1) ==
            IF w1.err # ""
              THEN Result(ReplyError(w1, c, "join_room_failed", w1.err), conn)
            ELSE
              LET room == getRoom(w1.rooms, getRoomByPlayer(w1, playerId))
                  conn1 == [conn EXCEPT !.type = "player", !.playerId = playerId,
                                        !.roomId = room.id]
              IN  Result(Reply(w1, c, "joined_room",
                               [playerId |-> playerId, roomId |-> room.id,
                                roomInfo |-> getInfo(room)]), conn1)
      IN  after(addPlayerToRoom(World, playerId, c, roomId, freshId))

handleLeaveRoom(c, conn) ==
    LET room == getRoomByPlayer(World, conn.playerId)
        w1 == IF conn.type = "player" /\ conn.playerId # None
                THEN IF room # None THEN removePlayer(World, room, conn.playerId) ELSE World
              ELSE IF conn.type = "spectator" THEN removeSpectator(World, c)
              ELSE World
        conn1 == [conn EXCEPT !.type = "unknown", !.playerId = None, !.roomId = None]
    IN  Result(Reply(w1, c, "left_room", [success |-> TRUE]), conn1)

handleGetRoomInfo(c, conn, roomId) ==
    IF roomId # None
      THEN IF HasRoom(rooms, roomId)
             THEN LET room == getRoom(rooms, roomId)
                  IN  Result(Reply(World, c, "room_info",
                                   [roomInfo |-> getInfo(room),
                                    gameState |-> getDualPlayerPayload(room)]), conn)
             ELSE Result(ReplyError(World, c, "room_not_found", "Room not found"), conn)
    ELSE Result(Reply(World, c, "rooms_list",
                      [rooms |-> [i \in 1 .. Len(rooms) |-> getInfo(rooms[i])],
                       stats |-> getRoomStats(rooms, spectators)]), conn)

(* ---------------- moves and the pattern analyzer ---------------- *)
\* a / b kept as an exact fraction
Frac(a, b) == [num |-> a, den |-> b]

\* steps in the same direction counted as mirror steps whatever their size
CountStepsBySign(l1, l2, i, acc) ==
    LET steps == i .. Min(Len(l1), Len(l2))
        p1Move(k) == l1[k] - l1[k - 1]
        p2Move(k) == l2[k] - l2[k - 1]
    IN  [inverse |-> acc.inverse
           + Cardinality({k \in steps : p1Move(k) * p2Move(k) < 0}),
         mirror |-> acc.mirror
           + Cardinality({k \in steps : p1Move(k) * p2Move(k) > 0})]

RECURSIVE CountSteps(_, _, _, _)
\* the loop of analyzeCrossPlayerPatterns over the index-aligned steps i .. n
CountSteps(l1, l2, i, acc) ==
    IF i > Min(Len(l1), Len(l2)) THEN acc
    ELSE LET p1Move == l1[i] - l1[i - 1]
             p2Move == l2[i] - l2[i - 1]
             both == p1Move # 0 /\ p2Move # 0
             inv == both /\ ((p1Move > 0 /\ p2Move < 0) \/ (p1Move < 0 /\ p2Move > 0))
             mir == both /\ p1Move = p2Move
         IN  CountSteps(l1, l2, i + 1,
                        [inverse |-> acc.inverse + (IF inv THEN 1 ELSE 0),
                         mirror |-> acc.mirror + (IF mir THEN 1 ELSE 0)])

\* the analyzer emptying the cache when it has too few samples to go on
analyzeClearing(r) ==
    IF Size(r) < 2 THEN [r EXCEPT !.patterns = EmptyPatterns]
    ELSE LET p1Lanes == LastN(r.players[1].stats.recentLanes, 5)
             p2Lanes == LastN(r.players[2].stats.recentLanes, 5)
             n == CountSteps(p1Lanes, p2Lanes, 2, [inverse |-> 0, mirror |-> 0])
             total == n.inverse + n.mirror
             confidence == Frac(Min(3, total), 3)
         IN  IF Len(p1Lanes) >= 3 /\ Len(p2Lanes) >= 3
               THEN [r EXCEPT !.patterns =
                       [inverse_movement |->
                          [correlation |-> Frac(n.inverse, Max(1, total)),
                           confidence |-> confidence, lastUpdated |-> now],
                        mirror_movement |->
                          [correlation |-> Frac(n.mirror, Max(1, total)),
                           confidence |-> confidence, lastUpdated |-> now]]]
               ELSE [r EXCEPT !.patterns = EmptyPatterns]

\* the analyzer with a confidence that does not saturate
analyzeUnsaturated(r) ==
    IF Size(r) < 2 THEN r
    ELSE LET p1Lanes == LastN(r.players[1].stats.recentLanes, 5)
             p2Lanes == LastN(r.players[2].stats.recentLanes, 5)
             n == CountSteps(p1Lanes, p2Lanes, 2, [inverse |-> 0, mirror |-> 0])
             total == n.inverse + n.mirror
             confidence == Frac(total, 3)
         IN  IF Len(p1Lanes) >= 3 /\ Len(p2Lanes) >= 3
               THEN [r EXCEPT !.patterns =
                       [inverse_movement |->
                          [correlation |-> Frac(n.inverse, Max(1, total)),
                           confidence |-> confidence, lastUpdated |-> now],
                        mirror_movement |->
                          [correlation |-> Frac(n.mirror, Max(1, total)),
                           confidence |-> confidence, lastUpdated |-> now]]]
               ELSE r

analyzeCrossPlayerPatterns(r) ==
    IF Size(r) < 2 THEN r
    ELSE LET p1Lanes == LastN(r.players[1].stats.recentLanes, 5)
             p2Lanes == LastN(r.players[2].stats.recentLanes, 5)
             n == CountSteps(p1Lanes, p2Lanes, 2, [inverse |-> 0, mirror |-> 0])
             total == n.inverse + n.mirror
             confidence == Frac(Min(3, total), 3)
         IN  IF Len(p1Lanes) >= 3 /\ Len(p2Lanes) >= 3
               THEN [r EXCEPT !.patterns =
                       [inverse_movement |->
                          [correlation |-> Frac(n.inverse, Max(1, total)),
                           confidence |-> confidence, lastUpdated |-> now],
                        mirror_movement |->
                          [correlation |-> Frac(n.mirror, Max(1, total)),
                           confidence |-> confidence, lastUpdated |-> now]]]
               ELSE r

\* the move with the analyzer run on the buffers as they were before it
updatePlayerMoveAnalyzedBefore(w, roomId, playerId, moveData) ==
    LET r == getRoom(w.rooms, roomId)
    IN  IF ~HasPlayer(r, playerId) THEN w
        ELSE
          LET i == PlayerIdx(r, playerId)
              merged == Spread(r.players[i].stats, moveData)
              withLane == IF "lane" \in DOMAIN moveData
                            THEN [merged EXCEPT !.recentLanes =
                                    PushBounded(@, moveData.lane, MaxRecent)]
                            ELSE merged
              stats == IF "move" \in DOMAIN moveData
                         THEN [withLane EXCEPT !.recentMoves =
                                 PushBounded(@, moveData.move, MaxRecent)]
                         ELSE withLane
              r1 == MarkFailed([r EXCEPT !.players[i].stats = stats, !.lastActivity = now],
                               playerId)
              data == Spread([playerId |-> playerId], moveData)
              w1 == [w EXCEPT !.sent = broadcastToPlayers(@, r1, "player_move", data, playerId)]
          IN  Emit(SetRoom(w1, [r1 EXCEPT !.patterns = analyzeCrossPlayerPatterns(r).patterns]), "playerMove", roomId, playerId)

updatePlayerMove(w, roomId, playerId, moveData) ==
    LET r == getRoom(w.rooms, roomId)
    IN  IF ~HasPlayer(r, playerId) THEN w
        ELSE
          LET i == PlayerIdx(r, playerId)
              merged == Spread(r.players[i].stats, moveData)
              withLane == IF "lane" \in DOMAIN moveData
                            THEN [merged EXCEPT !.recentLanes =
                                    PushBounded(@, moveData.lane, MaxRecent)]
                            ELSE merged
              stats == IF "move" \in DOMAIN moveData
                         THEN [withLane EXCEPT !.recentMoves =
                                 PushBounded(@, moveData.move, MaxRecent)]
                         ELSE withLane
              r1 == MarkFailed([r EXCEPT !.players[i].stats = stats, !.lastActivity = now],
                               playerId)
              data == Spread([playerId |-> playerId], moveData)
              w1 == [w EXCEPT !.sent = broadcastToPlayers(@, r1, "player_move", data, playerId)]
          IN  Emit(SetRoom(w1, analyzeCrossPlayerPatterns(r1)), "playerMove", roomId, playerId)

handlePlayerMove(c, conn, payload) ==
    IF conn.type # "player" THEN Result(World, conn)
    ELSE IF ~HasRoom(rooms, conn.roomId)
      THEN Result(ReplyError(World, c, "room_not_found", "Room not found"), conn)
    ELSE IF ~HasPlayer(getRoom(rooms, conn.roomId), conn.playerId)
      THEN Result(ReplyError(World, c, "move_failed", "Failed to update player move"), conn)
    ELSE Result(updatePlayerMove(World, conn.roomId, conn.playerId, payload), conn)

handlePlayerUpdate(c, conn, payload) ==
    IF conn.type # "player" THEN Result(World, conn)
    ELSE IF ~HasRoom(rooms, conn.roomId) THEN Result(World, conn)
    ELSE Result(updatePlayerMove(World, conn.roomId, conn.playerId, payload), conn)

handleGameState(c, conn, payload) ==
    IF conn.type # "player" THEN Result(World, conn)
    ELSE IF ~HasRoom(rooms, conn.roomId) THEN Result(World, conn)
    ELSE LET data == [playerId |-> conn.playerId, gameState |-> payload, timestamp |-> now]
         IN  Result(Caught([World EXCEPT !.sent = broadcastToAll(@, spectators,
                       getRoom(rooms, conn.roomId), "game_state_update", data)],
                       conn.roomId, None, TRUE), conn)

handleAIDecisionRelay(c, conn, payload) ==
    IF conn.type # "player" THEN Result(World, conn)
    ELSE IF ~HasRoom(rooms, conn.roomId) THEN Result(World, conn)
    ELSE LET data == [playerId |-> conn.playerId, decision |-> payload.decision]
         IN  Result(Caught([World EXCEPT !.sent = broadcastToAll(@, spectators,
                       getRoom(rooms, conn.roomId), "ai_decision", data)],
                       conn.roomId, None, TRUE), conn)

(* ---------------- inbound messages ---------------- *)
MovePayloads == {[lane |-> 1, move |-> "left"]}
SnapshotPayload == [tick |-> 1]
RelayPayload == [decision |-> "spawn"]
\* reports of a lane
LanePayloads == {[lane |-> l, move |-> "step"] : l \in 1 .. NumLanes}
\* a payload that carries a field named like a buffer of the stats
BufferPayloads == {[recentLanes |-> [k \in 1 .. MaxRecent + 1 |-> 1]],
                   [recentMoves |-> [k \in 1 .. MaxRecent + 1 |-> "step"]],
                   [recentLanes |-> <<>>]}
OptPlayerIds == PlayerIds \cup {None}
OptRoomIds == RoomIds \cup {None}

JoinAsPlayerMsg(playerId, roomId) ==
    [type |-> "join_as_player", playerId |-> playerId, roomId |-> roomId]
JoinAsDashboardMsg(roomId) == [type |-> "join_as_dashboard", roomId |-> roomId]
PlayerMoveMsg(payload) == [type |-> "player_move", payload |-> payload]
PlayerUpdateMsg(payload) == [type |-> "player_update", payload |-> payload]
GameStateMsg == [type |-> "game_state", payload |-> SnapshotPayload]
AIDecisionRelayMsg == [type |-> "ai_decision_relay", payload |-> RelayPayload]
CreateRoomMsg(roomId) == [type |-> "create_room", roomId |-> roomId]
JoinRoomMsg(roomId, playerId, asSpectator) ==
    [type |-> "join_room", roomId |-> roomId, playerId |-> playerId,
     asSpectator |-> asSpectator]
LeaveRoomMsg == [type |-> "leave_room"]
GetRoomInfoMsg(roomId) == [type |-> "get_room_info", roomId |-> roomId]
PingMsg == [type |-> "ping"]
\* a type the switch of handleMessage does not know
UnknownTypeMsg == [type |-> "other"]
\* data that JSON.parse rejects
MalformedMsg == [type |-> "unparseable"]

Messages ==
    {JoinAsPlayerMsg(p, r) : p \in OptPlayerIds, r \in OptRoomIds}
    \cup {JoinAsDashboardMsg(r) : r \in OptRoomIds}
    \cup {PlayerMoveMsg(m) : m \in MovePayloads}
    \cup {PlayerUpdateMsg(m) : m \in MovePayloads}
    \cup {GameStateMsg, AIDecisionRelayMsg, LeaveRoomMsg, PingMsg, UnknownTypeMsg, MalformedMsg}
    \cup {CreateRoomMsg(r) : r \in OptRoomIds}
    \cup {JoinRoomMsg(r, p, s) : r \in OptRoomIds, p \in OptPlayerIds, s \in BOOLEAN}
    \cup {GetRoomInfoMsg(r) : r \in OptRoomIds}

Touched(c) == [connections[c] EXCEPT !.lastActivity = now]

handleMessage(c, msg, freshId) ==
    LET conn == Touched(c)
    IN  CASE msg.type = "unparseable" ->
               Result(ReplyError(World, c, "parse_error", "Invalid JSON message"), conn)
          [] msg.type = "join_as_player" ->
               handlePlayerJoin(c, conn, msg.playerId, msg.roomId, freshId)
          [] msg.type = "join_as_dashboard" -> handleDashboardJoin(c, conn, msg.roomId, freshId)
          [] msg.type = "player_move" -> handlePlayerMove(c, conn, msg.payload)
          [] msg.type = "player_update" -> handlePlayerUpdate(c, conn, msg.payload)
          [] msg.type = "game_state" -> handleGameState(c, conn, msg.payload)
          [] msg.type = "ai_decision_relay" -> handleAIDecisionRelay(c, conn, msg.payload)
          [] msg.type = "create_room" -> handleCreateRoom(c, conn, msg.roomId, freshId)
          [] msg.type = "join_room" ->
               handleJoinRoom(c, conn, msg.roomId, msg.playerId, msg.asSpectator, freshId)
          [] msg.type = "leave_room" -> handleLeaveRoom(c, conn)
          [] msg.type = "get_room_info" -> handleGetRoomInfo(c, conn, msg.roomId)
          [] msg.type = "ping" -> Result(Reply(World, c, "pong", [timestamp |-> now]), conn)
          [] OTHER ->
               Result(ReplyError(World, c, "unknown_message_type", "Unknown message type"),
                      conn)

(* ---------------- the environment ---------------- *)
\* Ids that occur nowhere in the state are interchangeable: of those the
\* environment uses the smallest.
SlotIds == UNION {{rooms[i].players[j].id : j \in 1 .. Size(rooms[i])} : i \in 1 .. Len(rooms)}
UsedPlayerIds ==
    (DOMAIN playerRooms \cup SlotIds \cup {connections[c].playerId : c \in DOMAIN connections})
      \ {None}
UsedRoomIds ==
    (RoomIdSet(rooms) \cup {playerRooms[p] : p \in DOMAIN playerRooms}
       \cup {spectators[c] : c \in DOMAIN spectators}
       \cup {connections[c].roomId : c \in DOMAIN connections}) \ {None}
Least(S) == IF S = {} THEN {} ELSE {CHOOSE x \in S : \A y \in S : x <= y}
InPlayerIds == UsedPlayerIds \cup Least(PlayerIds \ UsedPlayerIds) \cup {None}
InRoomIds == UsedRoomIds \cup Least(RoomIds \ UsedRoomIds) \cup {None}
\* the ids generateRoomId may return
FreshIds == (UsedRoomIds \ RoomIdSet(rooms)) \cup Least(RoomIds \ UsedRoomIds)

(* ---------------- initial state ---------------- *)
Init ==
    /\ now = 0
    /\ ws = [c \in Conns |-> "idle"]
    /\ connections = EmptyMap
    /\ rooms = <<>>
    /\ playerRooms = EmptyMap
    /\ spectators = EmptyMap
    /\ pending = <<>>

(* ---------------- actions ---------------- *)
Receivable(c) == ws[c] = "open" /\ c \in DOMAIN connections

\* the ids generateRoomId may return to a handler that is given no room id; None
\* when the handler cannot call it, or when the model has no id left to give
FreshChoices(msg) ==
    IF "roomId" \in DOMAIN msg /\ msg.roomId = None /\ FreshIds # {} THEN FreshIds
    ELSE {None}

\* the runs of handleMessage on msg, one for each id generateRoomId may return;
\* a run that needs an id when the model has none left is cut
Outcomes(c, msg) ==
    {res \in {handleMessage(c, msg, freshId) : freshId \in FreshChoices(msg)} :
       ~HasRoom(res.w.rooms, None)}

\* the state a run of a handler leaves
Leaves(c, res) ==
    /\ rooms' = res.w.rooms
    /\ playerRooms' = res.w.playerRooms
    /\ spectators' = res.w.spectators
    /\ connections' = [connections EXCEPT ![c] = res.conn]

\* 'message' of a socket: handleMessage runs the handler to completion
Receive(c, msg) ==
    /\ Receivable(c)
    /\ \E res \in Outcomes(c, msg) : Leaves(c, res)
    /\ UNCHANGED <<now, ws, pending>>

\* 'connection' of the server: handleConnection stores the record (the welcome
\* envelope it sends changes no state); sockets are numbered in the order in which
\* they connect
Connect ==
    \E c \in Conns :
      /\ ws[c] = "idle"
      /\ \A d \in Conns : d < c => ws[d] # "idle"
      /\ ws' = [ws EXCEPT ![c] = "open"]
      /\ connections' = MapSet(connections, c, NewConnection)
      /\ UNCHANGED <<now, rooms, playerRooms, spectators, pending>>

\* the message actions draw participant ids from P and room ids from R
JoinAsPlayer(P, R) ==
    \E c \in DOMAIN connections, playerId \in P, roomId \in R :
      Receive(c, JoinAsPlayerMsg(playerId, roomId))

JoinAsDashboard(R) ==
    \E c \in DOMAIN connections, roomId \in R : Receive(c, JoinAsDashboardMsg(roomId))

\* the join of a connection that has not joined before
FirstJoin(P, R) ==
    \E c \in DOMAIN connections, playerId \in P \ {None}, roomId \in R :
      connections[c].type = "unknown" /\ Receive(c, JoinAsPlayerMsg(playerId, roomId))

\* the model stops reporting samples for a slot that holds MaxSamples of them
WithinSamples(c) ==
    LET conn == connections[c]
    IN  (conn.type = "player" /\ HasRoom(rooms, conn.roomId)
           /\ HasPlayer(getRoom(rooms, conn.roomId), conn.playerId))
        => LET r == getRoom(rooms, conn.roomId)
           IN  Len(r.players[PlayerIdx(r, conn.playerId)].stats.recentLanes) <= MaxSamples

\* the same with a limit of its own
SamplesWithin(c, limit) ==
    LET conn == connections[c]
    IN  (conn.type = "player" /\ HasRoom(rooms, conn.roomId)
           /\ HasPlayer(getRoom(rooms, conn.roomId), conn.playerId))
        => LET r == getRoom(rooms, conn.roomId)
           IN  Len(r.players[PlayerIdx(r, conn.playerId)].stats.recentLanes) <= limit

\* player_move with a payload of the given set
PlayerMoveOf(payloads, limit) ==
    \E c \in DOMAIN connections, payload \in payloads :
      SamplesWithin(c, limit) /\ Receive(c, PlayerMoveMsg(payload))

PlayerMove ==
    \E c \in DOMAIN connections, payload \in MovePayloads :
      WithinSamples(c) /\ Receive(c, PlayerMoveMsg(payload))

PlayerUpdate ==
    \E c \in DOMAIN connections, payload \in MovePayloads :
      WithinSamples(c) /\ Receive(c, PlayerUpdateMsg(payload))

GameState == \E c \in DOMAIN connections : Receive(c, GameStateMsg)

AIDecisionRelay == \E c \in DOMAIN connections : Receive(c, AIDecisionRelayMsg)

CreateRoom(R) == \E c \in DOMAIN connections, roomId \in R : Receive(c, CreateRoomMsg(roomId))

JoinRoom(P, R) ==
    \E c \in DOMAIN connections, roomId \in R, playerId \in P, asSpectator \in BOOLEAN :
      Receive(c, JoinRoomMsg(roomId, playerId, asSpectator))

LeaveRoom == \E c \in DOMAIN connections : Receive(c, LeaveRoomMsg)

GetRoomInfo(R) == \E c \in DOMAIN connections, roomId \in R : Receive(c, GetRoomInfoMsg(roomId))

Ping == \E c \in DOMAIN connections : Receive(c, PingMsg)

UnknownType == \E c \in DOMAIN connections : Receive(c, UnknownTypeMsg)

Malformed == \E c \in DOMAIN connections : Receive(c, MalformedMsg)

\* handleDisconnection as it would be with the removal of the player left in
handleDisconnectionRemoving(c) ==
    IF c \notin DOMAIN connections THEN World
    ELSE LET conn == connections[c]
             room == getRoomByPlayer(World, conn.playerId)
         IN  IF conn.type = "player" /\ conn.playerId # None
               THEN IF room # None THEN removePlayer(World, room, conn.playerId) ELSE World
             ELSE IF conn.type = "spectator" \/ conn.type = "dashboard"
               THEN removeSpectator(World, c)
             ELSE World

handleDisconnection(c) ==
    IF c \notin DOMAIN connections THEN World
    ELSE LET conn == connections[c]
         IN  IF conn.type = "player" /\ conn.playerId # None THEN World
             ELSE IF conn.type = "spectator" \/ conn.type = "dashboard"
               THEN removeSpectator(World, c)
             ELSE World

\* 'close' or 'error' of an open socket: the transport is gone, the handler runs
Disconnect ==
    \E c \in Conns :
      /\ ws[c] \in {"open", "broken"}
      /\ ws' = [ws EXCEPT ![c] = "closed"]
      /\ connections' = MapDel(connections, c)
      /\ LET w == handleDisconnection(c)
         IN  rooms' = w.rooms /\ playerRooms' = w.playerRooms /\ spectators' = w.spectators
      /\ UNCHANGED <<now, pending>>

\* the transport of a socket fails without closing: its readyState stays 1, every
\* send on it throws from now on and nothing arrives from it any more
SendBreaks ==
    \E c \in DOMAIN connections :
      /\ ws[c] = "open"
      /\ ws' = [ws EXCEPT ![c] = "broken"]
      /\ UNCHANGED <<now, connections, rooms, playerRooms, spectators, pending>>

\* 'pong' of a socket: the listener refreshes the record it captured
Pong ==
    \E c \in DOMAIN connections :
      /\ Receivable(c)
      /\ connections' = [connections EXCEPT ![c].lastActivity = now]
      /\ UNCHANGED <<now, ws, rooms, playerRooms, spectators, pending>>

\* a timeout as short as the interval of the sweep
TimedOutWithinInterval(c, t) == t - connections[c].lastActivity >= HealthInterval

\* the test of the sweep that runs at time t
TimedOutAt(c, t) == t - connections[c].lastActivity > HealthTimeout

TimedOut(c) == TimedOutAt(c, now)

\* what the sweep that runs at time t leaves: terminate() closes the transport at
\* once (the 'close' it raises finds no record), ping() is called on the others
Checked(t) ==
    LET dead == {c \in DOMAIN connections : TimedOutAt(c, t)}
    IN  [ws |-> [c \in Conns |-> IF c \in dead THEN "closed" ELSE ws[c]],
         connections |-> [c \in DOMAIN connections \ dead |-> connections[c]],
         pinged |-> DOMAIN connections \ dead]

performHealthCheck ==
    /\ ws' = Checked(now).ws
    /\ connections' = Checked(now).connections
    /\ UNCHANGED <<now, rooms, playerRooms, spectators, pending>>

\* the timer of startHealthCheck: the interval passes and the sweep runs
healthCheckInterval ==
    /\ now < MaxIntervals * HealthInterval
    /\ now' = now + HealthInterval
    /\ ws' = Checked(now + HealthInterval).ws
    /\ connections' = Checked(now + HealthInterval).connections
    /\ UNCHANGED <<rooms, playerRooms, spectators, pending>>

\* every registered socket that still answers has answered the last probe
Responsive ==
    \A c \in DOMAIN connections : ws[c] = "open" => connections[c].lastActivity = now

\* a request in flight holds a reference to its Room object: to the room of the
\* table while that room is the one the request found (a room made again under the
\* same id after a sweep is younger), else to the object the sweep took out
IsLive(e) == HasRoom(rooms, e.room) /\ getRoom(rooms, e.room).createdAt = e.createdAt

isExpired(r) == now - r.lastActivity > MaxIdleTime

RECURSIVE DeleteAll(_, _)
DeleteAll(w, ids) ==
    IF ids = <<>> THEN w ELSE DeleteAll(deleteRoom(w, Head(ids)), Tail(ids))

\* the world the sweep leaves
Swept ==
    LET expired == SelectSeq(rooms, isExpired)
    IN  DeleteAll(World, [i \in 1 .. Len(expired) |-> expired[i].id])

cleanupExpiredRooms ==
    LET w == Swept
    IN  /\ rooms' = w.rooms
        /\ playerRooms' = w.playerRooms
        /\ spectators' = w.spectators
        /\ pending' = [j \in DOMAIN pending |->
                         IF IsLive(pending[j]) /\ ~HasRoom(w.rooms, pending[j].room)
                           THEN [pending[j] EXCEPT
                                   !.detached = <<getRoom(rooms, pending[j].room)>>]
                           ELSE pending[j]]
        /\ UNCHANGED <<now, ws, connections>>

\* number of clock steps taken to reach time t
ClockSteps(t) == t \div (MaxIdleTime + 1)

Tick ==
    \E dt \in TickSteps :
      /\ ClockSteps(now) < MaxTicks
      /\ now' = now + dt
      /\ UNCHANGED <<ws, connections, rooms, playerRooms, spectators, pending>>

(* ---------------- POST /decide-multiplayer ---------------- *)
\* what safeParseDecision makes of the upstream answer
AIResponses ==
    {[decision |-> "spawn_bullets", params |-> [count |-> 1, lanes |-> <<1>>],
      explain |-> "ok"]}
\* the index Math.random picks in aggressiveResponses
AggressiveResponses == 1 .. NumAggressive

\* (correlation * 100).toFixed(0)
Percent(f) == (200 * f.num + f.den) \div (2 * f.den)
\* cross_patterns.<name>?.confidence > 0.5
Confident(patterns, name) ==
    name \in DOMAIN patterns /\ 2 * patterns[name].confidence.num > patterns[name].confidence.den

\* the parts the strategist message is put together from
StrategistMessage(payload, aiDecision) ==
    [lanes |-> <<payload.player1.stats.lane, payload.player2.stats.lane>>,
     pattern |->
       IF Confident(payload.cross_patterns, "inverse_movement")
         THEN <<"inverse", Percent(payload.cross_patterns["inverse_movement"].correlation)>>
       ELSE IF Confident(payload.cross_patterns, "mirror_movement")
         THEN <<"mirror", Percent(payload.cross_patterns["mirror_movement"].correlation)>>
       ELSE <<"analyzing">>,
     count |-> aiDecision.params.count, targets |-> aiDecision.params.lanes]

generateAgentDebate(w, roomId, payload, aiDecision, k) ==
    addAgentDebate(w, roomId, StrategistMessage(payload, aiDecision), k)

\* the handler after the upstream answered: the decision, then the debate
Decided(w, e, aiResponse, k) ==
    generateAgentDebate(addAIDecision(w, e.room, aiResponse), e.room, e.payload, aiResponse, k)

\* a Room the sweep took out of the table has lost its listeners: it reaches no
\* spectator and no mapping
DetachedWorld(e) == [World EXCEPT !.rooms = e.detached, !.spectators = EmptyMap]

\* the world the answer to request e leaves
DecideOutcome(e, aiResponse, k) ==
    IF IsLive(e) THEN Decided(World, e, aiResponse, k)
    ELSE Decided(DetachedWorld(e), e, aiResponse, k)

Without(i) == [j \in 1 .. Len(pending) - 1 |-> IF j < i THEN pending[j] ELSE pending[j + 1]]

\* decisions recorded in room r or still to come from the requests in flight
Requested(r) ==
    r.tick + Cardinality({j \in DOMAIN pending :
                            pending[j].room = r.id /\ pending[j].createdAt = r.createdAt})

\* the handler up to its await: a request for a room that is unknown or holds
\* fewer than two participants is answered 400 or 404 and changes nothing
\* the model stops asking for a room that has recorded limit decisions
DecideRequestWithin(R, limit) ==
    \E roomId \in R \ {None} :
      /\ Len(pending) < MaxPending
      /\ HasRoom(rooms, roomId)
      /\ getDualPlayerPayload(getRoom(rooms, roomId)) # NullPayload
      /\ Requested(getRoom(rooms, roomId)) < limit
      /\ pending' = Append(pending,
                           [room |-> roomId, createdAt |-> getRoom(rooms, roomId).createdAt,
                            payload |-> getDualPlayerPayload(getRoom(rooms, roomId)),
                            detached |-> <<>>])
      /\ UNCHANGED <<now, ws, connections, rooms, playerRooms, spectators>>

DecideRequest(R) == DecideRequestWithin(R, MaxRecorded)

\* the upstream answered: the rest of the handler
DecideResponse ==
    \E i \in DOMAIN pending, aiResponse \in AIResponses, k \in AggressiveResponses :
      /\ IF IsLive(pending[i])
           THEN /\ rooms' = DecideOutcome(pending[i], aiResponse, k).rooms
                /\ pending' = Without(i)
           ELSE /\ rooms' = rooms
                /\ pending' =
                     [j \in DOMAIN Without(i) |->
                        IF Without(i)[j].room = pending[i].room
                             /\ Without(i)[j].createdAt = pending[i].createdAt
                          THEN [Without(i)[j] EXCEPT
                                  !.detached = DecideOutcome(pending[i], aiResponse, k).rooms]
                          ELSE Without(i)[j]]
      /\ UNCHANGED <<now, ws, connections, playerRooms, spectators>>

\* the upstream failed or timed out: the handler answers 500
DecideFailed ==
    \E i \in DOMAIN pending :
      /\ pending' = Without(i)
      /\ UNCHANGED <<now, ws, connections, rooms, playerRooms, spectators>>

(* ---------------- specifications ---------------- *)
\* every handler, every id
Next ==
    \/ Connect
    \/ JoinAsPlayer(InPlayerIds, InRoomIds)
    \/ JoinAsDashboard(InRoomIds)
    \/ PlayerMove
    \/ PlayerUpdate
    \/ GameState
    \/ AIDecisionRelay
    \/ CreateRoom(InRoomIds)
    \/ JoinRoom(InPlayerIds, InRoomIds)
    \/ LeaveRoom
    \/ GetRoomInfo(InRoomIds)
    \/ Ping
    \/ UnknownType
    \/ Malformed
    \/ Disconnect
    \/ Pong
    \/ performHealthCheck
    \/ cleanupExpiredRooms
    \/ Tick
    \/ DecideRequest(InRoomIds)
    \/ DecideResponse
    \/ DecideFailed

Spec == Init /\ [][Next]_vars

\* the ids the scenarios below draw from: a single room id; as many participant
\* ids as one room holds
OneRoom == {1}
PairIds == {p \in InPlayerIds : p <= maxPlayers}

\* one room id, every participant id, the clock at rest
NextLobby ==
    \/ Connect
    \/ JoinAsPlayer(InPlayerIds, OneRoom)
    \/ JoinAsDashboard(OneRoom)
    \/ PlayerMove
    \/ PlayerUpdate
    \/ GameState
    \/ AIDecisionRelay
    \/ CreateRoom(OneRoom)
    \/ JoinRoom(InPlayerIds, OneRoom)
    \/ LeaveRoom
    \/ GetRoomInfo(OneRoom)
    \/ Ping
    \/ UnknownType
    \/ Malformed
    \/ Disconnect

SpecLobby == Init /\ [][NextLobby]_vars

\* every room id, given or generated, the clock at rest
NextRooms ==
    \/ Connect
    \/ JoinAsPlayer(PairIds, InRoomIds)
    \/ JoinAsDashboard(InRoomIds)
    \/ CreateRoom(InRoomIds)
    \/ JoinRoom(PairIds, InRoomIds)
    \/ LeaveRoom
    \/ Disconnect

SpecRooms == Init /\ [][NextRooms]_vars

\* one room id, every participant id, the clock running, both sweeps
NextClock ==
    \/ Connect
    \/ JoinAsPlayer(InPlayerIds, OneRoom)
    \/ JoinAsDashboard(OneRoom)
    \/ JoinRoom(InPlayerIds, OneRoom)
    \/ LeaveRoom
    \/ Ping
    \/ Disconnect
    \/ Pong
    \/ performHealthCheck
    \/ cleanupExpiredRooms
    \/ Tick

SpecClock == Init /\ [][NextClock]_vars

\* every room id, given or generated, the clock running, the sweep of the rooms
NextSweep ==
    \/ Connect
    \/ JoinAsPlayer(PairIds, InRoomIds)
    \/ JoinAsDashboard(InRoomIds)
    \/ cleanupExpiredRooms
    \/ Tick

SpecSweep == Init /\ [][NextSweep]_vars

\* one room id, as many participant ids as it holds, the decision requests, sockets
\* that close
NextDecide ==
    \/ Connect
    \/ JoinAsDashboard(OneRoom)
    \/ JoinRoom(PairIds, OneRoom)
    \/ DecideRequest(OneRoom)
    \/ DecideResponse
    \/ DecideFailed
    \/ Disconnect

SpecDecide == Init /\ [][NextDecide]_vars

\* one room, each connection joining it once, decisions past the length of both
\* histories
NextHistory ==
    \/ Connect
    \/ FirstJoin(PairIds, OneRoom)
    \/ DecideRequestWithin(OneRoom, MaxHistory)
    \/ DecideResponse

SpecHistory == Init /\ [][NextHistory]_vars

\* one room, connections that join it, report lanes and leave it
NextMoves ==
    \/ Connect
    \/ FirstJoin(PairIds, OneRoom)
    \/ PlayerMoveOf(LanePayloads, MaxReports)
    \/ LeaveRoom

SpecMoves == Init /\ [][NextMoves]_vars

\* one room, its participants, the decisions recorded for it, the clock and the
\* sweep of the rooms on its timer
NextIdle ==
    \/ Connect
    \/ FirstJoin(PairIds, OneRoom)
    \/ DecideRequest(OneRoom)
    \/ DecideResponse
    \/ Tick
    \/ cleanupExpiredRooms

SpecIdle ==
    /\ Init /\ [][NextIdle]_vars
    /\ WF_vars(Tick)
    /\ WF_vars(cleanupExpiredRooms)

\* the health sweep on its timer; the sockets that answer do so before the next
\* sweep, the others have stopped answering for good
NextHealth ==
    \/ Connect
    \/ Ping
    \/ Pong
    \/ SendBreaks
    \/ (Responsive /\ healthCheckInterval)

SpecHealth ==
    /\ Init /\ [][NextHealth]_vars
    /\ WF_vars(Pong)
    /\ WF_vars(Responsive /\ healthCheckInterval)

\* one room, participants and spectators whose sends may start to throw
NextFaults ==
    \/ Connect
    \/ FirstJoin(PairIds, OneRoom)
    \/ JoinAsDashboard(OneRoom)
    \/ PlayerMove
    \/ GameState
    \/ LeaveRoom
    \/ SendBreaks
    \/ Disconnect

SpecFaults == Init /\ [][NextFaults]_vars

\* one room, two participants, buffers longer than the window of the analyzer
NextWindows ==
    \/ Connect
    \/ FirstJoin(PairIds, OneRoom)
    \/ PlayerMoveOf(LanePayloads, MaxLong)

SpecWindows == Init /\ [][NextWindows]_vars

(* ---------------- properties ---------------- *)
\* what a run of a handler wrote to socket c
Written(res, c) == res.w.sent[c]
\* the run answered socket c with an error envelope
ErrorReply(res, c) ==
    \E k \in 1 .. Len(Written(res, c)) : Written(res, c)[k].type = "error"
\* the run answered socket c with an error envelope carrying this message
ErrorReplyWith(res, c, message) ==
    \E k \in 1 .. Len(Written(res, c)) :
      /\ Written(res, c)[k].type = "error"
      /\ Written(res, c)[k].data.message = message
\* the run answered socket c with an envelope of this type
ReplyOfType(res, c, type) ==
    \E k \in 1 .. Len(Written(res, c)) : Written(res, c)[k].type = type
\* the two requests by which participant p asks for a slot of room r
JoinRequests(p, r) == {JoinAsPlayerMsg(p, r), JoinRoomMsg(r, p, FALSE)}
\* the number of slots room r holds for participant p
SlotsOf(r, p) == Cardinality({j \in 1 .. Size(r) : r.players[j].id = p})
\* the number of events of this name a run emitted
Emitted(res, name) ==
    Cardinality({k \in 1 .. Len(res.w.events) : res.w.events[k].name = name})

\* C1: every room holds at most maxPlayers slots, and a request for a slot of a room
\* that holds maxPlayers slots, made for a participant id that holds none of them,
\* is answered with the error 'Room is full' and leaves the slots of that room as
\* they were.
C1_CapacityRespected ==
    /\ \A i \in 1 .. Len(rooms) : Size(rooms[i]) <= maxPlayers
    /\ \A c \in DOMAIN connections, p \in PlayerIds, i \in 1 .. Len(rooms) :
         (Receivable(c) /\ Size(rooms[i]) = maxPlayers /\ ~HasPlayer(rooms[i], p))
         => \A msg \in JoinRequests(p, rooms[i].id) : \A res \in Outcomes(c, msg) :
              /\ ErrorReplyWith(res, c, "Room is full")
              /\ HasRoom(res.w.rooms, rooms[i].id)
              /\ getRoom(res.w.rooms, rooms[i].id).players = rooms[i].players

\* a third participant asks for a slot of a room that holds two, and is refused
C1_FullRoomRefuses ==
    \E c \in DOMAIN connections, p \in PlayerIds, i \in 1 .. Len(rooms) :
      /\ Receivable(c) /\ Size(rooms[i]) = maxPlayers /\ ~HasPlayer(rooms[i], p)
      /\ \E res \in Outcomes(c, JoinAsPlayerMsg(p, rooms[i].id)) :
           res.w.err = "Room is full" /\ res.w.rooms = rooms

\* C2: in every room the status is 'empty' exactly when it holds no slot, 'waiting'
\* exactly when it holds some but fewer than maxPlayers, and 'full' or 'active'
\* exactly when it holds maxPlayers.
C2_StatusFollowsCount ==
    \A i \in 1 .. Len(rooms) :
      LET r == rooms[i]
      IN  /\ r.status = "empty" <=> Size(r) = 0
          /\ r.status = "waiting" <=> (0 < Size(r) /\ Size(r) < maxPlayers)
          /\ r.status \in {"full", "active"} <=> Size(r) = maxPlayers

\* C3: the join that fills a room emits 'gameStarted' once, and the join of a
\* participant that already holds a slot of a room with maxPlayers slots emits none.
C3_StartFiresOnce ==
    \A c \in DOMAIN connections, p \in PlayerIds, i \in 1 .. Len(rooms) :
      Receivable(c)
      => \A msg \in JoinRequests(p, rooms[i].id) : \A res \in Outcomes(c, msg) :
           /\ (Size(rooms[i]) = maxPlayers - 1 /\ ~HasPlayer(rooms[i], p))
                => Emitted(res, "gameStarted") = 1
           /\ (Size(rooms[i]) = maxPlayers /\ HasPlayer(rooms[i], p))
                => Emitted(res, "gameStarted") = 0

\* the slot room r holds for participant p
SlotOf(r, p) == r.players[PlayerIdx(r, p)]
\* the transport of the socket a slot was filled from is gone
Dropped(slot) == ws[slot.websocket] # "open"

\* C4: no room holds two slots for one participant id, and when a participant id that
\* holds a slot of a room asks for a slot of that room again, from any connection,
\* the request is accepted and the room afterwards holds one slot for that id and
\* as many slots as before.
C4_RejoinKeepsOneSlot ==
    /\ \A i \in 1 .. Len(rooms), p \in PlayerIds : SlotsOf(rooms[i], p) <= 1
    /\ \A c \in DOMAIN connections, p \in PlayerIds, i \in 1 .. Len(rooms) :
         (Receivable(c) /\ HasPlayer(rooms[i], p))
         => \A msg \in JoinRequests(p, rooms[i].id) : \A res \in Outcomes(c, msg) :
              /\ ReplyOfType(res, c, "joined_room")
              /\ HasRoom(res.w.rooms, rooms[i].id)
              /\ SlotsOf(getRoom(res.w.rooms, rooms[i].id), p) = 1
              /\ Size(getRoom(res.w.rooms, rooms[i].id)) = Size(rooms[i])

\* a participant of a room with maxPlayers slots asks for its slot again from a
\* connection other than the one the slot was filled from
C4_RejoinOfFullRoom ==
    \E c \in DOMAIN connections, p \in PlayerIds, i \in 1 .. Len(rooms) :
      /\ Receivable(c) /\ HasPlayer(rooms[i], p) /\ Size(rooms[i]) = maxPlayers
      /\ SlotOf(rooms[i], p).websocket # c
      /\ \E res \in Outcomes(c, JoinRoomMsg(rooms[i].id, p, FALSE)) :
           /\ ReplyOfType(res, c, "joined_room")
           /\ SlotOf(getRoom(res.w.rooms, rooms[i].id), p).websocket = c

\* C5: when a participant id whose slot was filled from a socket that has since
\* dropped asks for a slot of the same room again, the slot afterwards holds the
\* stats and the join time it held before.
C5_RejoinKeepsStats ==
    \A c \in DOMAIN connections, p \in PlayerIds, i \in 1 .. Len(rooms) :
      (Receivable(c) /\ HasPlayer(rooms[i], p) /\ Dropped(SlotOf(rooms[i], p)))
      => \A msg \in JoinRequests(p, rooms[i].id) : \A res \in Outcomes(c, msg) :
           /\ HasRoom(res.w.rooms, rooms[i].id)
           /\ HasPlayer(getRoom(res.w.rooms, rooms[i].id), p)
           /\ SlotOf(getRoom(res.w.rooms, rooms[i].id), p).stats = SlotOf(rooms[i], p).stats
           /\ SlotOf(getRoom(res.w.rooms, rooms[i].id), p).joinedAt
                = SlotOf(rooms[i], p).joinedAt

\* the connection records a step removes
Removed == DOMAIN connections \ DOMAIN connections'

\* C6: a step that removes connection records without a leave_room -- the close of
\* a transport, or the health sweep -- leaves every room (slots, count, status,
\* started flag) and the participant mapping as they were and leaves the records of
\* the other connections as they were; when a record removed is that of a
\* participant, it leaves the spectator mapping as it was too.
C6_DropKeepsRoom ==
    [][Removed # {}
         => /\ rooms' = rooms
            /\ playerRooms' = playerRooms
            /\ connections' = [d \in DOMAIN connections \ Removed |-> connections[d]]
            /\ (\E c \in Removed :
                   connections[c].type = "player" /\ connections[c].playerId # None)
                 => spectators' = spectators]_vars

\* a room holds a slot filled from a socket that is closed and has no record, the
\* clock having passed the health timeout
C6_SlotOutlivesTransport ==
    \E i \in 1 .. Len(rooms) : \E j \in 1 .. Size(rooms[i]) :
      /\ ws[rooms[i].players[j].websocket] = "closed"
      /\ rooms[i].players[j].websocket \notin DOMAIN connections
      /\ now > HealthTimeout

\* the rooms that hold a slot for participant p
RoomsOf(rs, p) == {rs[i].id : i \in {j \in 1 .. Len(rs) : HasPlayer(rs[j], p)}}

\* C7: no participant id holds a slot in two rooms, and after a request that gives a
\* participant id a slot of a room other than the one it was in, it holds no slot of
\* the room it was in.
C7_OneRoomPerPlayer ==
    /\ \A p \in PlayerIds : Cardinality(RoomsOf(rooms, p)) <= 1
    /\ \A c \in DOMAIN connections, msg \in Messages :
         Receivable(c)
         => \A res \in Outcomes(c, msg) : \A p \in PlayerIds :
              /\ Cardinality(RoomsOf(res.w.rooms, p)) <= 1
              /\ (RoomsOf(res.w.rooms, p) # {} /\ RoomsOf(res.w.rooms, p) # RoomsOf(rooms, p))
                   => RoomsOf(res.w.rooms, p) \cap RoomsOf(rooms, p) = {}

\* a participant that holds a slot of one room is given a slot of another
C7_MovesBetweenRooms ==
    \E c \in DOMAIN connections, p \in PlayerIds, r \in RoomIds :
      /\ Receivable(c) /\ RoomsOf(rooms, p) # {} /\ r \notin RoomsOf(rooms, p)
      /\ HasRoom(rooms, r)
      /\ \E res \in Outcomes(c, JoinRoomMsg(r, p, FALSE)) : RoomsOf(res.w.rooms, p) = {r}

\* what the rooms show of their slots and status
Standing(rs) ==
    [i \in 1 .. Len(rs) |->
       [id |-> rs[i].id, players |-> rs[i].players, status |-> rs[i].status,
        started |-> rs[i].started]]

\* C8: a request that is answered with an error envelope writes to no socket but
\* the one it came from, and leaves the slots and status of every room, the
\* participant mapping and the spectator mapping as they were.
C8_RejectionChangesNothing ==
    \A c \in DOMAIN connections, msg \in Messages :
      Receivable(c)
      => \A res \in Outcomes(c, msg) :
           ErrorReply(res, c)
           => /\ \A d \in Conns \ {c} : Written(res, d) = <<>>
              /\ Standing(res.w.rooms) = Standing(rooms)
              /\ res.w.playerRooms = playerRooms
              /\ res.w.spectators = spectators

\* the requests that act for the participant the connection has joined as
RoleBound == {"player_move", "player_update", "game_state", "ai_decision_relay"}
\* the connection is a participant with an assigned room
ParticipantWithRoom(conn) == conn.type = "player" /\ conn.roomId # None

\* C9: a player_move, player_update, game_state or ai_decision_relay received on a
\* connection that is not a participant with an assigned room is answered with an
\* error envelope.
C9_RoleMismatchAnswered ==
    \A c \in DOMAIN connections, msg \in Messages :
      (Receivable(c) /\ msg.type \in RoleBound /\ ~ParticipantWithRoom(connections[c]))
      => \A res \in Outcomes(c, msg) : ErrorReply(res, c)

\* the number of slots of room id before the request (none while it does not exist)
SizeBefore(id) == IF HasRoom(rooms, id) THEN Size(getRoom(rooms, id)) ELSE 0
\* the open sockets that hold a slot of room r or are subscribed to it in specs
Audience(r, specs) ==
    {d \in Conns : /\ ws[d] = "open"
                   /\ \/ \E j \in 1 .. Size(r) : r.players[j].websocket = d
                      \/ d \in DOMAIN specs /\ specs[d] = r.id}
\* the run wrote to socket d an envelope of this type telling the count and status of r
Told(res, d, type, r) ==
    \E k \in 1 .. Len(Written(res, d)) :
      /\ Written(res, d)[k].type = type
      /\ Written(res, d)[k].data.playerCount = Size(r)
      /\ Written(res, d)[k].data.roomStatus = r.status

\* C10: when a request leaves a room with a slot count other than the one it had,
\* every open socket that holds a slot of the room, and every open socket subscribed
\* to it, is written a player_joined (the count rose) or a player_left (it fell)
\* that carries the count and the status the room is left with; the first slot of
\* a room leaves it 'waiting'.
C10_CountChangeBroadcast ==
    \A c \in DOMAIN connections, msg \in Messages :
      Receivable(c)
      => \A res \in Outcomes(c, msg) : \A i \in 1 .. Len(res.w.rooms) :
           LET r == res.w.rooms[i]
           IN  /\ Size(r) > SizeBefore(r.id)
                    => \A d \in Audience(r, res.w.spectators) : Told(res, d, "player_joined", r)
               /\ Size(r) < SizeBefore(r.id)
                    => \A d \in Audience(r, res.w.spectators) : Told(res, d, "player_left", r)
               /\ (Size(r) = 1 /\ SizeBefore(r.id) = 0) => r.status = "waiting"

\* a join changes the count of a room that another open socket is subscribed to and
\* a third party holds a slot of
C10_JoinSeenByOthers ==
    \E c \in DOMAIN connections, p \in PlayerIds, i \in 1 .. Len(rooms) :
      /\ Receivable(c) /\ Size(rooms[i]) = 1 /\ ~HasPlayer(rooms[i], p)
      /\ \E d \in DOMAIN spectators : d # c /\ ws[d] = "open" /\ spectators[d] = rooms[i].id
      /\ \E res \in Outcomes(c, JoinRoomMsg(rooms[i].id, p, FALSE)) :
           /\ Size(getRoom(res.w.rooms, rooms[i].id)) = maxPlayers
           /\ \A d \in Audience(getRoom(res.w.rooms, rooms[i].id), res.w.spectators) :
                Told(res, d, "player_joined", getRoom(res.w.rooms, rooms[i].id))

\* the data of the envelopes of one type among those written, in the order written
DataOf(written, type) ==
    LET of == SelectSeq(written, LAMBDA m : m.type = type)
    IN  [k \in 1 .. Len(of) |-> of[k].data]

\* the places of the envelopes of the given types among those written
PlacesOf(written, types) == {k \in 1 .. Len(written) : written[k].type \in types}

SpectatorJoins(r) ==
    {JoinAsDashboardMsg(r)} \cup {JoinRoomMsg(r, p, TRUE) : p \in OptPlayerIds}

\* C11: a spectator join to an existing room, by join_as_dashboard with the room id
\* or by join_room with asSpectator, writes to the joining connection a snapshot of
\* the room, then the last RecentDecisions recorded decisions, then the last
\* RecentDebates recorded debates, each group oldest first.
C11_SpectatorJoinReplays ==
    \A c \in DOMAIN connections, r \in RoomIdSet(rooms) : \A msg \in SpectatorJoins(r) :
      Receivable(c) =>
        \A res \in Outcomes(c, msg) :
          LET written == Written(res, c)
              snapshots == PlacesOf(written, {"room_state", "dashboard_ready"})
              decisions == PlacesOf(written, {"ai_decision"})
              debates == PlacesOf(written, {"agent_debate"})
          IN  /\ snapshots # {}
              /\ DataOf(written, "ai_decision")
                   = LastN(getRoom(rooms, r).aiDecisions, RecentDecisions)
              /\ DataOf(written, "agent_debate")
                   = LastN(getRoom(rooms, r).agentDebates, RecentDebates)
              /\ \A i \in snapshots, j \in decisions, k \in debates : i < j /\ j < k
              /\ \A i \in snapshots, k \in decisions \cup debates : i < k

\* the request of connection c records a move: c is bound to a slot of its room
RecordsMove(c) ==
    /\ connections[c].type = "player"
    /\ HasRoom(rooms, connections[c].roomId)
    /\ HasPlayer(getRoom(rooms, connections[c].roomId), connections[c].playerId)

\* C12: a recorded move is written as player_move to every other open socket that
\* holds a slot of the room or is subscribed to the room, and is not written to the
\* socket it came from.
C12_MoveReachesOthers ==
    \A c \in DOMAIN connections, payload \in MovePayloads :
      (Receivable(c) /\ RecordsMove(c))
      => \A res \in Outcomes(c, PlayerMoveMsg(payload)) :
           /\ \A d \in Audience(getRoom(rooms, connections[c].roomId), spectators) \ {c} :
                PlacesOf(Written(res, d), {"player_move"}) # {}
           /\ PlacesOf(Written(res, c), {"player_move"}) = {}

\* two of the envelopes written carry the same event: the same type and data
Twice(written) ==
    \E i, j \in 1 .. Len(written) :
      i < j /\ written[i].type = written[j].type /\ written[i].data = written[j].data

\* C13: no request makes the server write the same broadcast event twice to one
\* socket, whatever joins that socket has made before.
C13_AtMostOnce ==
    \A c \in DOMAIN connections, msg \in Messages :
      Receivable(c)
      => \A res \in Outcomes(c, msg) : \A d \in Conns : ~Twice(Written(res, d))

\* the slots and the status of every room, by room id
Seats(rs) == [i \in 1 .. Len(rs) |-> [id |-> rs[i].id, players |-> rs[i].players,
                                       status |-> rs[i].status, started |-> rs[i].started]]

\* C14: a connection that made its room with join_as_dashboard and one that joined
\* a room as spectator are served alike: a spectator join of either kind leaves the
\* slots and the status of every room that existed as they were, and a leave_room
\* from a connection of either role takes it out of the spectator mapping.
C14_DashboardAsSpectator ==
    \A c \in DOMAIN connections :
      Receivable(c)
      => /\ \A r \in RoomIds : \A msg \in SpectatorJoins(r) : \A res \in Outcomes(c, msg) :
              SubSeq(Seats(res.w.rooms), 1, Len(rooms)) = Seats(rooms)
         /\ connections[c].type \in {"dashboard", "spectator"}
              => \A res \in Outcomes(c, LeaveRoomMsg) : c \notin DOMAIN res.w.spectators

\* the request of connection c takes the last slot out of its room
LastLeaves(c) == RecordsMove(c) /\ Size(getRoom(rooms, connections[c].roomId)) = 1

\* a room without slots admits the participant and the spectator that ask for it
Admits(c, id) ==
    /\ \A p \in PlayerIds : \A res \in Outcomes(c, JoinRoomMsg(id, p, FALSE)) :
         /\ ReplyOfType(res, c, "joined_room")
         /\ HasPlayer(getRoom(res.w.rooms, id), p)
    /\ \A res \in Outcomes(c, JoinRoomMsg(id, None, TRUE)) :
         /\ ReplyOfType(res, c, "joined_as_spectator")
         /\ c \in DOMAIN res.w.spectators /\ res.w.spectators[c] = id

\* C15: no step takes a room out of the table but the sweep of the rooms that have
\* expired; the leave_room of the last participant leaves the room in the table
\* with no slot; and a room with no slot admits whoever joins it or watches it.
C15_RoomsOutliveLeaves ==
    /\ [][\A i \in 1 .. Len(rooms) : ~HasRoom(rooms', rooms[i].id) => isExpired(rooms[i])]_vars
    /\ [](\A c \in DOMAIN connections :
             Receivable(c)
             => /\ LastLeaves(c)
                     => \A res \in Outcomes(c, LeaveRoomMsg) :
                          /\ HasRoom(res.w.rooms, connections[c].roomId)
                          /\ Size(getRoom(res.w.rooms, connections[c].roomId)) = 0
                /\ \A i \in 1 .. Len(rooms) : Size(rooms[i]) = 0 => Admits(c, rooms[i].id))

\* a room that its last participant left stands in the table, and a connection that
\* asks for it is given a slot of it
C15_EmptiedRoomJoined ==
    \E i \in 1 .. Len(rooms), c \in DOMAIN connections, p \in PlayerIds :
      /\ rooms[i].status = "empty" /\ Size(rooms[i]) = 0 /\ Receivable(c)
      /\ \E res \in Outcomes(c, JoinRoomMsg(rooms[i].id, p, FALSE)) :
           ReplyOfType(res, c, "joined_room")

\* the ids of the rooms of rs that have expired
ExpiredIds(rs) == {rs[i].id : i \in {k \in 1 .. Len(rs) : isExpired(rs[k])}}

\* C16: the sweep takes out of the table every room whose last activity is older
\* than the threshold, leaves no entry of the participant mapping and no entry of
\* the spectator mapping that refers to a room it took out, and leaves the other
\* rooms, in their order, as they were.
C16_SweepDeletesExpired ==
    /\ RoomIdSet(Swept.rooms) \cap ExpiredIds(rooms) = {}
    /\ \A p \in DOMAIN Swept.playerRooms : Swept.playerRooms[p] \notin ExpiredIds(rooms)
    /\ \A c \in DOMAIN Swept.spectators : Swept.spectators[c] \notin ExpiredIds(rooms)
    /\ Swept.rooms = SelectSeq(rooms, LAMBDA r : ~isExpired(r))

\* the sweep finds a room that has expired, with a participant and a spectator
\* mapped to it, beside a room that has not, and takes out the one only
C16_OneOfTwoExpired ==
    \E i, j \in 1 .. Len(rooms) :
      /\ isExpired(rooms[i]) /\ ~isExpired(rooms[j])
      /\ \E p \in DOMAIN playerRooms : playerRooms[p] = rooms[i].id
      /\ \E c \in DOMAIN spectators : spectators[c] = rooms[i].id
      /\ Swept.rooms = <<rooms[j]>>
      /\ DOMAIN Swept.spectators # DOMAIN spectators

\* the participant joins that name no room
AnyRoomJoins(p) == {JoinAsPlayerMsg(p, None), JoinRoomMsg(None, p, FALSE)}

\* the rooms of rs that wait with a free slot
Available(rs) ==
    {rs[i].id : i \in {k \in 1 .. Len(rs) : rs[k].status = "waiting" /\ Size(rs[k]) < maxPlayers}}

\* C17: a participant join that names no room puts the participant in a room that
\* was in the table already, and makes no room, whenever the table holds a room
\* that waits with a free slot; it makes a room only when the table holds none.
C17_JoinAnyRoom ==
    \A c \in DOMAIN connections, p \in PlayerIds : \A msg \in AnyRoomJoins(p) :
      Receivable(c)
      => \A res \in Outcomes(c, msg) :
           /\ Available(rooms) # {}
                => /\ RoomIdSet(res.w.rooms) = RoomIdSet(rooms)
                   /\ RoomsOf(res.w.rooms, p) # {}
           /\ RoomIdSet(res.w.rooms) # RoomIdSet(rooms) => Available(rooms) = {}

\* C18: a participant join that names a room the table does not hold, sent as
\* join_as_player or as join_room, leaves that room in the table with a slot for
\* the participant.
C18_JoinCreatesNamedRoom ==
    \A c \in DOMAIN connections, p \in PlayerIds, r \in RoomIds \ RoomIdSet(rooms) :
      \A msg \in JoinRequests(p, r) :
        Receivable(c)
        => \A res \in Outcomes(c, msg) :
             HasRoom(res.w.rooms, r) /\ HasPlayer(getRoom(res.w.rooms, r), p)

\* the room ids the table does not hold
UnknownIds == RoomIds \ RoomIdSet(rooms)

\* the run refused the spectator: an error naming the missing room, no mapping made
Refused(res, c) ==
    /\ ErrorReplyWith(res, c, "Room not found")
    /\ res.w.spectators = spectators
    /\ res.w.rooms = rooms

\* C19 as stated: every spectator join that names a room the table does not hold,
\* join_as_dashboard included, is answered with the not-found error and makes no
\* spectator mapping.
C19_SpectatorJoinRefused ==
    \A c \in DOMAIN connections, r \in UnknownIds : \A msg \in SpectatorJoins(r) :
      Receivable(c) => \A res \in Outcomes(c, msg) : Refused(res, c)

\* C19: a join_room with asSpectator that names a room the table does not hold is
\* answered with the not-found error and leaves the spectator mapping and the table
\* as they were; a join_as_dashboard that names such a room makes the room and
\* subscribes the connection to it.
C19_JoinRoomSpectatorRefused ==
    \A c \in DOMAIN connections, r \in UnknownIds :
      Receivable(c)
      => /\ \A p \in OptPlayerIds : \A res \in Outcomes(c, JoinRoomMsg(r, p, TRUE)) :
              Refused(res, c) /\ res.conn = Touched(c)
         /\ \A res \in Outcomes(c, JoinAsDashboardMsg(r)) :
              /\ HasRoom(res.w.rooms, r)
              /\ c \in DOMAIN res.w.spectators /\ res.w.spectators[c] = r
              /\ ReplyOfType(res, c, "dashboard_ready")

\* a connection subscribed to one room asks to watch a room the table does not
\* hold, is refused and stays subscribed where it was
C19_WatcherRefused ==
    \E c \in DOMAIN spectators, r \in UnknownIds :
      /\ Receivable(c) /\ HasRoom(rooms, spectators[c])
      /\ \E res \in Outcomes(c, JoinRoomMsg(r, None, TRUE)) :
           Refused(res, c) /\ res.w.spectators[c] = spectators[c]

\* the run made one room, under an id the table did not hold, and told the socket
Created(res, c) ==
    /\ Len(res.w.rooms) = Len(rooms) + 1
    /\ SubSeq(res.w.rooms, 1, Len(rooms)) = rooms
    /\ res.w.rooms[Len(res.w.rooms)].id \notin RoomIdSet(rooms)
    /\ \E k \in 1 .. Len(Written(res, c)) :
         /\ Written(res, c)[k].type = "room_created"
         /\ Written(res, c)[k].data.roomId = res.w.rooms[Len(res.w.rooms)].id

\* C20: a create_room that names the id of a room of the table is answered with the
\* already-exists error and leaves the rooms, with their slots, status and
\* histories, and both mappings as they were; a create_room that names no id makes
\* a room under an id that no room of the table has.
C20_CreateRoomChecksId ==
    \A c \in DOMAIN connections :
      Receivable(c)
      => /\ \A r \in RoomIdSet(rooms) : \A res \in Outcomes(c, CreateRoomMsg(r)) :
              /\ ErrorReplyWith(res, c, "Room already exists")
              /\ res.w.rooms = rooms
              /\ res.w.playerRooms = playerRooms
              /\ res.w.spectators = spectators
         /\ \A res \in Outcomes(c, CreateRoomMsg(None)) : Created(res, c)

\* the table holds a room with a slot and a watcher; a create_room under its id is
\* refused, one without id makes another room
C20_TakenIdRefused ==
    \E c \in DOMAIN connections, i \in 1 .. Len(rooms) :
      /\ Receivable(c) /\ Size(rooms[i]) > 0
      /\ \E d \in DOMAIN spectators : spectators[d] = rooms[i].id
      /\ \E res \in Outcomes(c, CreateRoomMsg(rooms[i].id)) :
           ErrorReplyWith(res, c, "Room already exists")
      /\ \E res \in Outcomes(c, CreateRoomMsg(None)) : Created(res, c)

\* the last entry of a history
Latest(h) == h[Len(h)]

\* socket d was written an envelope of this type with this data
Delivered(snt, d, type, data) ==
    \E k \in 1 .. Len(snt[d]) : snt[d][k].type = type /\ snt[d][k].data = data

\* C21: addAIDecision gives the decision the tick of the room, which is greater
\* than the tick of every decision the room holds, advances the tick by one, puts
\* the decision at the end of the history, and writes it as ai_decision to every
\* open socket that holds a slot of the room or is subscribed to it.
C21_DecisionTicksAndBroadcast ==
    \A i \in 1 .. Len(rooms), aiResponse \in AIResponses :
      LET r == rooms[i]
          w == addAIDecision(World, r.id, aiResponse)
          r1 == getRoom(w.rooms, r.id)
      IN  /\ Latest(r1.aiDecisions).tick = r.tick
          /\ r1.tick = r.tick + 1
          /\ \A k \in 1 .. Len(r.aiDecisions) : r.aiDecisions[k].tick < r.tick
          /\ \A k \in 1 .. Len(r.aiDecisions) - 1 :
               r.aiDecisions[k].tick < r.aiDecisions[k + 1].tick
          /\ r1.aiDecisions = PushBounded(r.aiDecisions, Latest(r1.aiDecisions), MaxDecisions)
          /\ \A d \in Audience(r, spectators) :
               Delivered(w.sent, d, "ai_decision", Latest(r1.aiDecisions))

\* a room that has recorded decisions, with a slot on one open socket and another
\* open socket subscribed to it, records one more and both sockets are written it
C21_NextDecisionSeen ==
    \E i \in 1 .. Len(rooms), c \in DOMAIN spectators, aiResponse \in AIResponses :
      /\ rooms[i].tick >= 2 /\ spectators[c] = rooms[i].id /\ ws[c] = "open"
      /\ \E j \in 1 .. Size(rooms[i]) :
           /\ rooms[i].players[j].websocket # c
           /\ ws[rooms[i].players[j].websocket] = "open"
           /\ LET w == addAIDecision(World, rooms[i].id, aiResponse)
              IN  /\ Delivered(w.sent, c, "ai_decision",
                               Latest(getRoom(w.rooms, rooms[i].id).aiDecisions))
                  /\ Delivered(w.sent, rooms[i].players[j].websocket, "ai_decision",
                               Latest(getRoom(w.rooms, rooms[i].id).aiDecisions))

\* history h1 is history h with one entry pushed and, h being at its limit, its
\* oldest entry shifted out
PushedOn(h, h1, limit) ==
    /\ h1 # <<>>
    /\ h1 = IF Len(h) = limit THEN Append(Tail(h), Latest(h1)) ELSE Append(h, Latest(h1))

\* C22: a room that has recorded n decisions, and with them n debates, holds the
\* last min(n, MaxDecisions) decisions in the order of their ticks and
\* min(n, MaxDebates) debates; a step that changes a history pushes one entry at
\* its end and shifts the oldest out when the history was at its limit.
C22_HistoriesBounded ==
    /\ [](\A i \in 1 .. Len(rooms) :
             /\ Len(rooms[i].aiDecisions) = Min(rooms[i].tick, MaxDecisions)
             /\ \A k \in 1 .. Len(rooms[i].aiDecisions) :
                  rooms[i].aiDecisions[k].tick
                    = rooms[i].tick - Len(rooms[i].aiDecisions) + k - 1
             /\ Len(rooms[i].agentDebates) = Min(rooms[i].tick, MaxDebates))
    /\ [][\A i \in 1 .. Len(rooms) :
            HasRoom(rooms', rooms[i].id)
            => /\ getRoom(rooms', rooms[i].id).aiDecisions # rooms[i].aiDecisions
                    => PushedOn(rooms[i].aiDecisions,
                                getRoom(rooms', rooms[i].id).aiDecisions, MaxDecisions)
               /\ getRoom(rooms', rooms[i].id).agentDebates # rooms[i].agentDebates
                    => PushedOn(rooms[i].agentDebates,
                                getRoom(rooms', rooms[i].id).agentDebates, MaxDebates)]_vars

\* a room has recorded more decisions than either history holds
C22_BothHistoriesFull ==
    \E i \in 1 .. Len(rooms) :
      /\ rooms[i].tick > MaxDecisions
      /\ Len(rooms[i].aiDecisions) = MaxDecisions
      /\ rooms[i].aiDecisions[1].tick = rooms[i].tick - MaxDecisions
      /\ Len(rooms[i].agentDebates) = MaxDebates

\* player_move and player_update with the payloads of the model
Reports ==
    {PlayerMoveMsg(m) : m \in LanePayloads \cup MovePayloads \cup BufferPayloads}
    \cup {PlayerUpdateMsg(m) : m \in LanePayloads \cup MovePayloads \cup BufferPayloads}

\* C23: whatever fields the payload of a player_move or a player_update carries,
\* the lane buffer and the move buffer of every slot hold at most MaxRecent entries
\* after it.
C23_BuffersBounded ==
    \A c \in DOMAIN connections, msg \in Reports :
      Receivable(c)
      => \A res \in Outcomes(c, msg) : \A i \in 1 .. Len(res.w.rooms) :
           \A j \in 1 .. Size(res.w.rooms[i]) :
             /\ Len(res.w.rooms[i].players[j].stats.recentLanes) <= MaxRecent
             /\ Len(res.w.rooms[i].players[j].stats.recentMoves) <= MaxRecent

\* the metrics of a cache without the time of their computation
Metrics(patterns) ==
    [name \in DOMAIN patterns |->
       [correlation |-> patterns[name].correlation, confidence |-> patterns[name].confidence]]

\* C24: whenever the payload of a room carries pattern metrics, both participants
\* of the room have at least 3 lane samples and the metrics are the ones the
\* analyzer computes from the samples of these two participants.
C24_MetricsOfCurrentPair ==
    \A i \in 1 .. Len(rooms) :
      LET payload == getDualPlayerPayload(rooms[i])
      IN  (payload # NullPayload /\ DOMAIN payload.cross_patterns # {})
          => /\ Len(payload.player1.stats.recentLanes) >= 3
             /\ Len(payload.player2.stats.recentLanes) >= 3
             /\ Metrics(payload.cross_patterns)
                  = Metrics(analyzeCrossPlayerPatterns(rooms[i]).patterns)

\* the window of the analyzer on a lane buffer
Window(r, j) == LastN(r.players[j].stats.recentLanes, 5)

\* the step of a window that ends at index k
Delta(win, k) == win[k] - win[k - 1]

\* indexes at which both windows have a step
Aligned(r) == 2 .. Min(Len(Window(r, 1)), Len(Window(r, 2)))

\* aligned steps, both non-zero, of opposite signs
InverseSteps(r) ==
    {k \in Aligned(r) : Delta(Window(r, 1), k) * Delta(Window(r, 2), k) < 0}

\* aligned steps, both non-zero, equal
MirrorSteps(r) ==
    {k \in Aligned(r) : Delta(Window(r, 1), k) # 0
                         /\ Delta(Window(r, 1), k) = Delta(Window(r, 2), k)}

\* rooms of two participants with at least 3 lane samples each
Analyzable(r) ==
    Size(r) = 2 /\ Len(Window(r, 1)) >= 3 /\ Len(Window(r, 2)) >= 3

\* C25: on two windows of at least 3 samples the analyzer sets the correlation of
\* each metric to the number of aligned steps of its class (inverse: both
\* non-zero, opposite signs; mirror: both non-zero, equal) over max(1, inverse +
\* mirror); each correlation is in [0,1], they sum to 1 when a step was counted
\* and are both 0 otherwise.
C25_CorrelationCounts ==
    \A i \in 1 .. Len(rooms) :
      Analyzable(rooms[i])
      => LET p == analyzeCrossPlayerPatterns(rooms[i]).patterns
             ni == Cardinality(InverseSteps(rooms[i]))
             nm == Cardinality(MirrorSteps(rooms[i]))
             ci == p["inverse_movement"].correlation
             cm == p["mirror_movement"].correlation
         IN  /\ ci = Frac(ni, Max(1, ni + nm))
             /\ cm = Frac(nm, Max(1, ni + nm))
             /\ 0 <= ci.num /\ ci.num <= ci.den
             /\ 0 <= cm.num /\ cm.num <= cm.den
             /\ ci.den = cm.den
             /\ IF ni + nm >= 1 THEN ci.num + cm.num = ci.den
                                ELSE ci.num = 0 /\ cm.num = 0

\* a buffer longer than the window, windows of different lengths, an inverse
\* step, a mirror step and a step in the same direction of different sizes
C25_MixedWindows ==
    \E i \in 1 .. Len(rooms) :
      /\ Analyzable(rooms[i])
      /\ Len(rooms[i].players[1].stats.recentLanes) > 5
      /\ Len(Window(rooms[i], 2)) < 5
      /\ InverseSteps(rooms[i]) # {}
      /\ MirrorSteps(rooms[i]) # {}
      /\ \E k \in Aligned(rooms[i]) :
            /\ Delta(Window(rooms[i], 1), k) * Delta(Window(rooms[i], 2), k) > 0
            /\ Delta(Window(rooms[i], 1), k) # Delta(Window(rooms[i], 2), k)

\* the number of step pairs the analyzer counts in a room
Counted(r) == Cardinality(InverseSteps(r)) + Cardinality(MirrorSteps(r))

\* the confidence the analyzer gives a metric of a room
ConfidenceOf(r, name) == analyzeCrossPlayerPatterns(r).patterns[name].confidence

\* C26: the confidence of both metrics is min(1, counted step pairs / 3): exactly
\* 1 from 3 counted pairs on, and never lower after a move that left at least as
\* many counted pairs.
C26_ConfidenceSaturates ==
    /\ [](\A i \in 1 .. Len(rooms) :
           Analyzable(rooms[i])
           => \A name \in {"inverse_movement", "mirror_movement"} :
                LET conf == ConfidenceOf(rooms[i], name)
                IN  /\ conf = Frac(Min(3, Counted(rooms[i])), 3)
                    /\ Counted(rooms[i]) >= 3 => conf.num = conf.den)
    /\ [][\A i \in 1 .. Len(rooms) :
            (Analyzable(rooms[i]) /\ i <= Len(rooms') /\ Analyzable(rooms'[i])
               /\ Counted(rooms'[i]) >= Counted(rooms[i]))
            => \A name \in {"inverse_movement", "mirror_movement"} :
                 ConfidenceOf(rooms'[i], name).num >= ConfidenceOf(rooms[i], name).num]_vars

\* four step pairs counted: one more than the confidence needs to be 1
C26_FourPairsCounted ==
    \E i \in 1 .. Len(rooms) : Analyzable(rooms[i]) /\ Counted(rooms[i]) = 4

\* the lane buffer of a fresh slot after the given reports
Reported(lanes) == <<InitLane>> \o lanes

\* a room whose two slots were created and then reported 1, 2, 3 and 3, 2, 1
Crossing(r) ==
    /\ Size(r) = 2
    /\ \E j, k \in 1 .. 2 :
         /\ r.players[j].stats.recentLanes = Reported(<<1, 2, 3>>)
         /\ r.players[k].stats.recentLanes = Reported(<<3, 2, 1>>)

\* C27: once the two fresh participants of a room have reported lanes 1, 2, 3 and
\* 3, 2, 1 with player_move, in whatever interleaving, the cached
\* inverse_movement has correlation 1 and confidence 1 and the cached
\* mirror_movement has correlation 0.
C27_CrossingIsInverse ==
    \A i \in 1 .. Len(rooms) :
      Crossing(rooms[i])
      => /\ DOMAIN rooms[i].patterns = {"inverse_movement", "mirror_movement"}
         /\ LET inv == rooms[i].patterns["inverse_movement"]
                mir == rooms[i].patterns["mirror_movement"]
            IN  /\ inv.correlation.num = inv.correlation.den
                /\ inv.confidence.num = inv.confidence.den
                /\ mir.correlation.num = 0

C27_CrossingReported == \E i \in 1 .. Len(rooms) : Crossing(rooms[i])

\* the rooms after the move of one participant and then the move of another
AfterBoth(roomId, first, m1, second, m2) ==
    updatePlayerMove(updatePlayerMove(World, roomId, first, m1), roomId, second, m2).rooms

\* C28: the moves of the two participants of a room, processed in either order,
\* leave the same stats, the same lane and move buffers and the same cached
\* metrics.
C28_MovesCommute ==
    \A i \in 1 .. Len(rooms) :
      Size(rooms[i]) = 2
      => \A m1, m2 \in LanePayloads \cup MovePayloads \cup BufferPayloads :
           AfterBoth(rooms[i].id, rooms[i].players[1].id, m1, rooms[i].players[2].id, m2)
             = AfterBoth(rooms[i].id, rooms[i].players[2].id, m2, rooms[i].players[1].id, m1)

\* the sockets a broadcast of room r has to reach whatever happens to the others
Reachable(r) == Audience(r, spectators)

\* C29: a subscriber whose send throws, or whose transport is not open, keeps no
\* broadcast from the open sockets of the room, and the operation that broadcasts
\* completes with its state change: a decision is recorded and written to every
\* open slot and subscription, a relayed snapshot is written to all of them
\* without an error reply, a move is recorded and written to the other slots.
C29_FailuresContained ==
    /\ \A i \in 1 .. Len(rooms), aiResponse \in AIResponses :
         LET w == addAIDecision(World, rooms[i].id, aiResponse)
         IN  /\ w.err = ""
             /\ getRoom(w.rooms, rooms[i].id).tick = rooms[i].tick + 1
             /\ \A d \in Reachable(rooms[i]) : PlacesOf(w.sent[d], {"ai_decision"}) # {}
    /\ \A c \in DOMAIN connections :
         (Receivable(c) /\ RecordsMove(c))
         => LET r == getRoom(rooms, connections[c].roomId)
            IN  /\ \A res \in Outcomes(c, GameStateMsg) :
                     /\ res.w.err = "" /\ ~ErrorReply(res, c)
                     /\ \A d \in Reachable(r) :
                          PlacesOf(Written(res, d), {"game_state_update"}) # {}
                /\ \A payload \in MovePayloads :
                     \A res \in Outcomes(c, PlayerMoveMsg(payload)) :
                       /\ res.w.err = "" /\ ~ErrorReply(res, c)
                       /\ LET r1 == getRoom(res.w.rooms, r.id)
                          IN  r1.players[PlayerIdx(r1, connections[c].playerId)].stats.lane
                                = payload.lane
                       /\ \A j \in 1 .. Size(r) :
                            (r.players[j].id # connections[c].playerId
                               /\ ws[r.players[j].websocket] = "open")
                            => PlacesOf(Written(res, r.players[j].websocket),
                                        {"player_move"}) # {}

\* the slot the loop visits first throws, the slot it visits next is open, and a
\* subscription of the room throws as well
C29_ThrowsBeforeOpen ==
    \E i \in 1 .. Len(rooms) :
      /\ Size(rooms[i]) = 2
      /\ ws[rooms[i].players[1].websocket] = "broken"
      /\ ws[rooms[i].players[2].websocket] = "open"
      /\ \E d \in DOMAIN spectators : spectators[d] = rooms[i].id /\ ws[d] = "broken"

\* the sweep at time t does what the claim says of a sweep
SweepsAsClaimed(t) ==
    \A c \in DOMAIN connections :
      IF t - connections[c].lastActivity > HealthTimeout
        THEN Checked(t).ws[c] = "closed" /\ c \notin DOMAIN Checked(t).connections
        ELSE /\ c \in Checked(t).pinged
             /\ c \in DOMAIN Checked(t).connections
             /\ Checked(t).ws[c] = ws[c]

\* a socket that stopped answering while the clock has three intervals left
Silent(c) ==
    /\ c \in DOMAIN connections /\ ws[c] = "broken"
    /\ now + 3 * HealthInterval <= MaxIntervals * HealthInterval

\* C30: a sweep terminates and unregisters exactly the connections whose last
\* activity is older than the timeout and probes the others, which stay; a
\* message and a pong set the last activity to the time of their receipt; with
\* the sweep on its timer a connection that has stopped answering is eventually
\* unregistered and one that answers every probe is never unregistered.
C30_HealthSweep ==
    /\ [](SweepsAsClaimed(now) /\ SweepsAsClaimed(now + HealthInterval))
    /\ [](\A c \in DOMAIN connections, msg \in Messages :
            Receivable(c) => \A res \in Outcomes(c, msg) : res.conn.lastActivity = now)
    /\ [][\A c \in DOMAIN connections :
            /\ ws[c] = "open" => c \in DOMAIN connections'
            /\ (c \in DOMAIN connections' /\ connections'[c] # connections[c])
                 => connections'[c].lastActivity = now']_vars
    /\ \A c \in Conns : Silent(c) ~> (c \notin DOMAIN connections)

\* the sweep has unregistered a socket that stopped answering and kept one that
\* connected before it and answered every probe since
C30_SilentSweptResponsiveKept ==
    \E c, d \in Conns :
      /\ ws[c] = "closed" /\ c \notin DOMAIN connections
      /\ d \in DOMAIN connections /\ ws[d] = "open"
      /\ d < c

\* the times at which a room recorded something: a join, a leave, a start or a
\* move (lastActivity), a decision, a debate
Stamps(r) ==
    {r.lastActivity}
    \cup {r.aiDecisions[k].timestamp : k \in 1 .. Len(r.aiDecisions)}
    \cup {r.agentDebates[k].timestamp : k \in 1 .. Len(r.agentDebates)}

\* the room object is in the table after the step
Kept(r) ==
    \E j \in 1 .. Len(rooms') : rooms'[j].id = r.id /\ rooms'[j].createdAt = r.createdAt

\* the values of the clock
Times == {k * (MaxIdleTime + 1) : k \in 0 .. MaxTicks}

\* room id stands in the table with last activity t
IdleSince(id, t) == HasRoom(rooms, id) /\ getRoom(rooms, id).lastActivity = t

\* C31: the sweep takes a room out only when everything the room recorded is
\* older than the threshold, and with the sweep on its timer and the clock
\* advancing a room that records nothing more is eventually taken out.
C31_IdleRoomsSwept ==
    /\ [][\A i \in 1 .. Len(rooms) :
            ~Kept(rooms[i]) => \A t \in Stamps(rooms[i]) : now - t > MaxIdleTime]_vars
    /\ \A id \in RoomIds, t \in Times :
         (IdleSince(id, t) /\ ClockSteps(now) < MaxTicks) ~> ~IdleSince(id, t)

\* C32: a connection record carries a participant id only while its role is
\* participant, and carries a room id exactly while its role is not unassigned.
C32_RecordMatchesRole ==
    \A c \in DOMAIN connections :
      /\ connections[c].playerId # None => connections[c].type = "player"
      /\ connections[c].roomId # None <=> connections[c].type # "unknown"

\* C33: called on a room that does not hold two participants with at least 3
\* samples in each window, the analyzer leaves the room as it is: its pattern
\* cache, the stats of its slots and everything else.
C33_AnalyzerNoOp ==
    \A i \in 1 .. Len(rooms) :
      ~Analyzable(rooms[i]) => analyzeCrossPlayerPatterns(rooms[i]) = rooms[i]

\* a room of two with metrics in its cache, one window of 2 samples and one of 3
C33_CachedAndShort ==
    \E i \in 1 .. Len(rooms) :
      /\ Size(rooms[i]) = 2 /\ DOMAIN rooms[i].patterns # {}
      /\ \E j, k \in 1 .. 2 :
           Len(Window(rooms[i], j)) = 2 /\ Len(Window(rooms[i], k)) >= 3

\* C34: the game of a room has started exactly when the room holds maxPlayers
\* participant slots.
C34_StartedIffFull ==
    \A i \in 1 .. Len(rooms) : rooms[i].started <=> Size(rooms[i]) = maxPlayers

\* a participant is about to leave a room whose game has started, and the room
\* is left with one slot and no game
C34_LeaveStopsGame ==
    \E c \in DOMAIN connections :
      /\ Receivable(c) /\ RecordsMove(c)
      /\ getRoom(rooms, connections[c].roomId).started
      /\ \E res \in Outcomes(c, LeaveRoomMsg) :
           LET r == getRoom(res.w.rooms, connections[c].roomId)
           IN  Size(r) = maxPlayers - 1 /\ ~r.started

\* C35: the participant mapping sends id p to room r exactly when r is in the room
\* table and holds a slot for p.
C35_MappingMatchesSlots ==
    \A p \in PlayerIds, r \in RoomIds :
      (p \in DOMAIN playerRooms /\ playerRooms[p] = r)
      <=> (HasRoom(rooms, r) /\ HasPlayer(getRoom(rooms, r), p))

\* the sweep is about to take out a room that holds a slot, beside a room that
\* holds one and stays
C35_MappedRoomExpires ==
    \E i, j \in 1 .. Len(rooms) :
      /\ isExpired(rooms[i]) /\ Size(rooms[i]) > 0
      /\ ~isExpired(rooms[j]) /\ Size(rooms[j]) > 0
      /\ DOMAIN Swept.playerRooms # DOMAIN playerRooms

\* C36: every entry of the spectator mapping belongs to a socket that is in the
\* connection registry.
C36_SpectatorsRegistered ==
    \A c \in DOMAIN spectators : c \in DOMAIN connections

\* the run subscribed socket c as a spectator
Subscribed(res, c) ==
    ReplyOfType(res, c, "dashboard_ready") \/ ReplyOfType(res, c, "joined_as_spectator")

\* C37: every entry of the spectator mapping names a room of the room table; a
\* socket has one entry at most, and a request that subscribes it leaves that
\* entry on the room it has just joined.
C37_OneLiveSubscription ==
    /\ \A c \in DOMAIN spectators : HasRoom(rooms, spectators[c])
    /\ \A c \in DOMAIN connections, r \in RoomIds : \A msg \in SpectatorJoins(r) :
         Receivable(c)
         => \A res \in Outcomes(c, msg) :
              /\ \A d \in DOMAIN res.w.spectators : HasRoom(res.w.rooms, res.w.spectators[d])
              /\ Subscribed(res, c)
                   => c \in DOMAIN res.w.spectators /\ res.w.spectators[c] = r

\* a socket subscribed to one room joins another as a spectator and its entry moves
C37_SubscriptionMoves ==
    \E c \in DOMAIN spectators, r \in RoomIds :
      /\ Receivable(c) /\ HasRoom(rooms, r) /\ spectators[c] # r
      /\ \E res \in Outcomes(c, JoinAsDashboardMsg(r)) : res.w.spectators[c] = r

\* the rooms socket d may take as its current session around a run for socket c
SessionsOf(res, c, d) ==
    IF d = c THEN {connections[c].roomId, res.conn.roomId} ELSE {connections[d].roomId}
\* the envelopes the 'broadcast' listener wrote to socket d: they carry the room id
SpectatorCopies(res, d) ==
    {k \in 1 .. Len(Written(res, d)) : "roomId" \in DOMAIN Written(res, d)[k]}
\* socket d was written the player_joined that goes to the slots of the room
SlotCopy(res, d) ==
    \E k \in 1 .. Len(Written(res, d)) :
      /\ Written(res, d)[k].type = "player_joined"
      /\ "roomId" \notin DOMAIN Written(res, d)[k]

\* C38: a socket is written the events of the room recorded as its session only:
\* an event a room sends to its subscribers reaches a socket whose record names
\* that room, and the player_joined of a join to room r reaches, as a slot of r,
\* only sockets whose record names r.
C38_RoomsIsolated ==
    \A c \in DOMAIN connections, msg \in Messages :
      Receivable(c)
      => \A res \in Outcomes(c, msg), d \in DOMAIN connections :
           /\ \A k \in SpectatorCopies(res, d) :
                Written(res, d)[k].roomId \in SessionsOf(res, c, d)
           /\ (msg.type = "join_as_player" /\ msg.roomId # None /\ SlotCopy(res, d))
                => msg.roomId \in SessionsOf(res, c, d)

\* the requests by which a socket leaves its room or reports a move
LeaveOrMove == {LeaveRoomMsg} \cup {PlayerMoveMsg(m) : m \in MovePayloads}
\* the run left the slot of participant p in room id as it was
SlotKept(res, id, p) ==
    /\ HasRoom(res.w.rooms, id)
    /\ HasPlayer(getRoom(res.w.rooms, id), p)
    /\ SlotOf(getRoom(res.w.rooms, id), p) = SlotOf(getRoom(rooms, id), p)

\* C39: a leave_room or a player_move of socket c removes or changes no slot whose
\* socket reference is another socket; in particular a socket whose participant
\* id was taken over by another socket leaves the slot of that socket as it is.
C39_OnlyOwnSlot ==
    \A c \in DOMAIN connections, msg \in LeaveOrMove :
      Receivable(c)
      => \A res \in Outcomes(c, msg), i \in 1 .. Len(rooms) :
           \A j \in 1 .. Size(rooms[i]) :
             rooms[i].players[j].websocket # c
             => SlotKept(res, rooms[i].id, rooms[i].players[j].id)
====
